---------------------------- MODULE Spec2Model ----------------------------
(***************************************************************************)
(* Model of the skill installation orchestrator                            *)
(* (src/src/agents/skills-install.ts): installSkill and the functions it   *)
(* calls, as one state machine per call.  A call's position (pc) advances  *)
(* from one await point of the code to the next; the collaborators (the   *)
(* scanner, the guarded fetch, the process runner, the file system) answer *)
(* nondeterministically.                                                   *)
(***************************************************************************)
EXTENDS Integers, Sequences, FiniteSets, TLC

VARIABLES
    call,    \* call[c]: request, locals, log and result of installSkill call c
    host,    \* host[h]: the machine a call runs on (lookup path, platform)
    oracle   \* oracle[o]: the collaborator responses given so far, in order

vars == <<call, host, oracle>>

Calls == {1, 2}

---------------------------------------------------------------------------
(* Values *)

\* code: number | null (the runner gives null on spawn failure or timeout)
NULL == -1

\* undefined / null for strings and optional fields
None == "<undefined>"

\* !value of an optional string: undefined and "" are both falsy
Falsy(s) == s \in {None, ""}

DEFAULT_TIMEOUT_MS == 300000
MIN_TIMEOUT_MS == 1000
MAX_TIMEOUT_MS == 900000
BREW_PREFIX_TIMEOUT_MS == 30000

\* Longest requires.bins list of the manifests explored
MaxRequiredBins == 2

Min(a, b) == IF a < b THEN a ELSE b
Max(a, b) == IF a > b THEN a ELSE b

\* String.prototype.trim on the names the model uses: padded names lose
\* their padding, blank names become empty.
Padded == (" git " :> "git") @@ ("  " :> "") @@ (" brew-0" :> "brew-0")
          @@ (" brew-1" :> "brew-1") @@ (" node-0 " :> "node-0")
TrimStr(s) == IF s \in DOMAIN Padded THEN Padded[s] ELSE s

\* A text is a sequence of lines.  text.trim() drops the blank lines at both
\* ends (and the padding of the outer lines).
RECURSIVE DropLeadingBlank(_)
DropLeadingBlank(t) ==
    IF t = <<>> THEN <<>>
    ELSE IF TrimStr(Head(t)) = "" THEN DropLeadingBlank(Tail(t)) ELSE t

RECURSIVE DropTrailingBlank(_)
DropTrailingBlank(t) ==
    IF t = <<>> THEN <<>>
    ELSE IF TrimStr(t[Len(t)]) = "" THEN DropTrailingBlank(SubSeq(t, 1, Len(t) - 1)) ELSE t

\* (the text is evaluated once, as v, and then trimmed)
TrimText(t) ==
    CHOOSE r \in {DropTrailingBlank(DropLeadingBlank(v)) : v \in {t}} : TRUE

RECURSIVE Flatten(_)
Flatten(ss) == IF ss = <<>> THEN <<>> ELSE Head(ss) \o Flatten(Tail(ss))

Range(s) == {s[i] : i \in DOMAIN s}

\* parts.filter(Boolean).join("\n") on texts: the non-empty parts, in order
JoinNonEmpty(parts) == Flatten(parts)

---------------------------------------------------------------------------
(* clamp of the request's timeout *)

\* Faulty variant of clampTimeout: no lower bound
clampTimeoutNoFloor(t) ==
    Min(IF t.given THEN t.ms ELSE DEFAULT_TIMEOUT_MS, MAX_TIMEOUT_MS)

clampTimeout(t) ==
    Min(Max(IF t.given THEN t.ms ELSE DEFAULT_TIMEOUT_MS, MIN_TIMEOUT_MS), MAX_TIMEOUT_MS)

---------------------------------------------------------------------------
(* Results and warnings *)

EmptyResult ==
    [ok |-> FALSE, message |-> <<>>, stdout |-> <<>>, stderr |-> <<>>,
     code |-> NULL, hasWarnings |-> FALSE, warnings |-> <<>>]

Result(ok, message, stdout, stderr, code) ==
    [ok |-> ok, message |-> message, stdout |-> stdout, stderr |-> stderr,
     code |-> code, hasWarnings |-> FALSE, warnings |-> <<>>]

withWarnings(result, warnings) ==
    IF Len(warnings) = 0 THEN result
    ELSE [result EXCEPT !.hasWarnings = TRUE, !.warnings = warnings]

\* What the scanner can answer for a skill directory
ScanOutcomes ==
    { [throws |-> FALSE, critical |-> 0, warn |-> 0, findings |-> <<>>],
      [throws |-> FALSE, critical |-> 0, warn |-> 2,
       findings |-> << [severity |-> "warn", message |-> "fetch-call"],
                       [severity |-> "warn", message |-> "env-read"] >>],
      [throws |-> FALSE, critical |-> 1, warn |-> 1,
       findings |-> << [severity |-> "warn", message |-> "fetch-call"],
                       [severity |-> "critical", message |-> "shell-exec"] >>],
      [throws |-> TRUE, critical |-> 0, warn |-> 0, findings |-> <<>>] }

\* what a call holds before its scan has answered
NotScanned == [throws |-> FALSE, critical |-> 0, warn |-> 0, findings |-> <<>>]

IsCritical(f) == f.severity = "critical"

RECURSIVE Messages(_)
Messages(fs) == IF fs = <<>> THEN <<>> ELSE <<Head(fs).message>> \o Messages(Tail(fs))

\* Faulty variant of collectSkillInstallScanWarnings: critical findings add
\* their warning to the warn-level one
collectAllScanWarnings(skillName, outcome) ==
    IF outcome.throws
    THEN << <<"code safety scan failed", skillName>> >>
    ELSE (IF outcome.warn > 0
          THEN << <<"suspicious code pattern(s)", skillName, ToString(outcome.warn)>> >>
          ELSE <<>>)
         \o (IF outcome.critical > 0
             THEN << <<"WARNING: dangerous code patterns", skillName>>
                       \o Messages(SelectSeq(outcome.findings, IsCritical)) >>
             ELSE <<>>)

collectSkillInstallScanWarnings(skillName, outcome) ==
    IF outcome.throws
    THEN << <<"code safety scan failed", skillName>> >>
    ELSE IF outcome.critical > 0
    THEN << <<"WARNING: dangerous code patterns", skillName>>
              \o Messages(SelectSeq(outcome.findings, IsCritical)) >>
    ELSE IF outcome.warn > 0
    THEN << <<"suspicious code pattern(s)", skillName, ToString(outcome.warn)>> >>
    ELSE <<>>

---------------------------------------------------------------------------
(* Spec lookup and the Strategy Resolver *)

resolveInstallId(spec, index) ==
    TrimStr(IF spec.id # None THEN spec.id ELSE spec.kind \o "-" \o ToString(index))

\* Faulty variant of findInstallSpec: the last spec of the id wins
RECURSIVE findLastFrom(_, _, _)
findLastFrom(specs, installId, i) ==
    IF i < 1 THEN 0
    ELSE IF resolveInstallId(specs[i], i - 1) = installId THEN i
    ELSE findLastFrom(specs, installId, i - 1)

findLastInstallSpec(entry, installId) ==
    findLastFrom(entry.install, installId, Len(entry.install))

\* index of the first spec whose resolved id is installId (0: none)
RECURSIVE findFrom(_, _, _)
findFrom(specs, installId, i) ==
    IF i > Len(specs) THEN 0
    ELSE IF resolveInstallId(specs[i], i - 1) = installId THEN i
    ELSE findFrom(specs, installId, i + 1)

findInstallSpec(entry, installId) == findFrom(entry.install, installId, 1)

buildNodeInstallCommand(packageName, prefs) ==
    CASE prefs.nodeManager = "pnpm" -> <<"pnpm", "add", "-g", packageName>>
      [] prefs.nodeManager = "yarn" -> <<"yarn", "global", "add", packageName>>
      [] prefs.nodeManager = "bun"  -> <<"bun", "add", "-g", packageName>>
      [] OTHER                      -> <<"npm", "install", "-g", packageName>>

\* Faulty variant of buildInstallCommand: a spec without its mandatory field
\* gets the command without its last argument, next to the error
buildPartialInstallCommand(spec, prefs) ==
    CASE spec.kind = "brew" ->
            IF Falsy(spec.formula)
            THEN [argv |-> <<"brew", "install">>, error |-> "missing brew formula"]
            ELSE [argv |-> <<"brew", "install", spec.formula>>, error |-> None]
      [] spec.kind = "node" ->
            IF Falsy(spec.package)
            THEN [argv |-> <<"npm", "install", "-g">>, error |-> "missing node package"]
            ELSE [argv |-> buildNodeInstallCommand(spec.package, prefs), error |-> None]
      [] spec.kind = "go" ->
            IF Falsy(spec.module)
            THEN [argv |-> <<"go", "install">>, error |-> "missing go module"]
            ELSE [argv |-> <<"go", "install", spec.module>>, error |-> None]
      [] spec.kind = "uv" ->
            IF Falsy(spec.package)
            THEN [argv |-> <<"uv", "tool", "install">>, error |-> "missing uv package"]
            ELSE [argv |-> <<"uv", "tool", "install", spec.package>>, error |-> None]
      [] spec.kind = "download" ->
            [argv |-> <<>>, error |-> "download install handled separately"]
      [] OTHER -> [argv |-> <<>>, error |-> "unsupported installer"]

\* argv = <<>> stands for argv: null; error = None for no error
buildInstallCommand(spec, prefs) ==
    CASE spec.kind = "brew" ->
            IF Falsy(spec.formula)
            THEN [argv |-> <<>>, error |-> "missing brew formula"]
            ELSE [argv |-> <<"brew", "install", spec.formula>>, error |-> None]
      [] spec.kind = "node" ->
            IF Falsy(spec.package)
            THEN [argv |-> <<>>, error |-> "missing node package"]
            ELSE [argv |-> buildNodeInstallCommand(spec.package, prefs), error |-> None]
      [] spec.kind = "go" ->
            IF Falsy(spec.module)
            THEN [argv |-> <<>>, error |-> "missing go module"]
            ELSE [argv |-> <<"go", "install", spec.module>>, error |-> None]
      [] spec.kind = "uv" ->
            IF Falsy(spec.package)
            THEN [argv |-> <<>>, error |-> "missing uv package"]
            ELSE [argv |-> <<"uv", "tool", "install", spec.package>>, error |-> None]
      [] spec.kind = "download" ->
            [argv |-> <<>>, error |-> "download install handled separately"]
      [] OTHER -> [argv |-> <<>>, error |-> "unsupported installer"]

---------------------------------------------------------------------------
(* Result Formatter *)

\* Lines matching /^error\b/i
ErrorLeadingLines == {"Error: architecture mismatch, required: arm64", "error: build failed"}

\* Lines matching /\b(err!|error:|failed)\b/i
FailureKeywordLines ==
    {"Error: architecture mismatch, required: arm64", "error: build failed",
     "npm ERR! code E404", "extraction failed"}

\* Lines holding "required: arm64" or "arm64 architecture" (lower-cased)
Arm64Lines == {"Error: architecture mismatch, required: arm64"}
\* Lines holding "requires macos" or "macos is required"
MacosLines == {"this formula requires macOS"}
\* Lines holding "requires linux" or "linux is required"
LinuxLines == {"Linux is required"}


\* detectPlatformIncompatibilityHint without the comparisons with
\* process.arch and process.platform of lines 48, 55 and 60
detectHintIgnoringHost(h, output) ==
    IF Range(output) \cap Arm64Lines # {}
    THEN <<"Not supported on this machine architecture (requires arm64)", host[h].arch>>
    ELSE IF Range(output) \cap MacosLines # {}
    THEN <<"Not supported on this OS (requires macOS)", host[h].platform>>
    ELSE IF Range(output) \cap LinuxLines # {}
    THEN <<"Not supported on this OS (requires Linux)", host[h].platform>>
    ELSE <<>>

detectPlatformIncompatibilityHint(h, output) ==
    IF Range(output) \cap Arm64Lines # {} /\ host[h].arch # "arm64"
    THEN <<"Not supported on this machine architecture (requires arm64)", host[h].arch>>
    ELSE IF Range(output) \cap MacosLines # {} /\ host[h].platform # "darwin"
    THEN <<"Not supported on this OS (requires macOS)", host[h].platform>>
    ELSE IF Range(output) \cap LinuxLines # {} /\ host[h].platform # "linux"
    THEN <<"Not supported on this OS (requires Linux)", host[h].platform>>
    ELSE <<>>

NonBlank(line) == TrimStr(line) # ""
IsErrorLeading(line) == line \in ErrorLeadingLines
IsFailureKeyword(line) == line \in FailureKeywordLines

\* <<>> stands for undefined, else the one-line summary
summarizeInstallOutput(text) ==
    LET lines == SelectSeq(TrimText(text), NonBlank)
        errs  == SelectSeq(lines, IsErrorLeading)
        fails == SelectSeq(lines, IsFailureKeyword)
    IN  IF lines = <<>> THEN <<>>
        ELSE IF errs # <<>> THEN <<TrimStr(errs[1])>>
        ELSE IF fails # <<>> THEN <<TrimStr(fails[1])>>
        ELSE <<TrimStr(lines[Len(lines)])>>

formatInstallFailureMessage(h, result) ==
    LET code == IF result.code # NULL
                THEN "exit " \o ToString(result.code) ELSE "unknown exit"
        s1 == summarizeInstallOutput(result.stderr)
        summary == IF s1 # <<>> THEN s1 ELSE summarizeInstallOutput(result.stdout)
        hint == detectPlatformIncompatibilityHint(h, result.stderr \o result.stdout)
    IN  <<"Install failed", code>> \o hint \o summary

---------------------------------------------------------------------------
(* Prerequisite Resolver: the allow-list and the candidate chain *)

BIN_INSTALL_ALLOWLIST ==
    [git     |-> [apt |-> <<"git">>,         brew |-> <<"git">>,         node |-> <<>>, go |-> <<>>],
     curl    |-> [apt |-> <<"curl">>,        brew |-> <<"curl">>,        node |-> <<>>, go |-> <<>>],
     unzip   |-> [apt |-> <<"unzip">>,       brew |-> <<"unzip">>,       node |-> <<>>, go |-> <<>>],
     tar     |-> [apt |-> <<"tar">>,         brew |-> <<"gnu-tar">>,     node |-> <<>>, go |-> <<>>],
     ffmpeg  |-> [apt |-> <<"ffmpeg">>,      brew |-> <<"ffmpeg">>,      node |-> <<>>, go |-> <<>>],
     convert |-> [apt |-> <<"imagemagick">>, brew |-> <<"imagemagick">>, node |-> <<>>, go |-> <<>>],
     go      |-> [apt |-> <<"golang-go">>,   brew |-> <<"go">>,          node |-> <<>>, go |-> <<>>],
     uv      |-> [apt |-> <<>>,              brew |-> <<"uv">>,          node |-> <<>>, go |-> <<>>],
     python3 |-> [apt |-> <<"python3">>,     brew |-> <<"python">>,      node |-> <<>>, go |-> <<>>],
     pip3    |-> [apt |-> <<"python3-pip">>, brew |-> <<"python">>,      node |-> <<>>, go |-> <<>>]]

NoCandidates == [apt |-> <<>>, brew |-> <<>>, node |-> <<>>, go |-> <<>>]

\* Faulty variant of allowOf: an open table, where an unlisted name is
\* installed under its own name
allowOfOpen(bin) ==
    IF bin \in DOMAIN BIN_INSTALL_ALLOWLIST
    THEN [listed |-> TRUE, entry |-> BIN_INSTALL_ALLOWLIST[bin]]
    ELSE [listed |-> TRUE,
          entry |-> [apt |-> <<bin>>, brew |-> <<bin>>, node |-> <<>>, go |-> <<>>]]

\* the lookup of line 470, for a name that may be no key: the entry of a key,
\* and for any other name an entry without candidates, marked unlisted
allowOf(bin) ==
    IF bin \in DOMAIN BIN_INSTALL_ALLOWLIST
    THEN [listed |-> TRUE, entry |-> BIN_INSTALL_ALLOWLIST[bin]]
    ELSE [listed |-> FALSE, entry |-> NoCandidates]

RECURSIVE Dedup(_, _)
Dedup(s, seen) ==
    IF s = <<>> THEN <<>>
    ELSE IF Head(s) \in seen THEN Dedup(Tail(s), seen)
    ELSE <<Head(s)>> \o Dedup(Tail(s), seen \cup {Head(s)})

RECURSIVE TrimAll(_)
TrimAll(s) ==
    IF s = <<>> THEN <<>>
    ELSE <<TrimStr(IF Head(s) = None THEN "" ELSE Head(s))>> \o TrimAll(Tail(s))

NonEmptyStr(x) == x # ""

uniqueNonEmpty(values) == Dedup(SelectSeq(TrimAll(values), NonEmptyStr), {})

hasBinary(h, bin) == bin \in host[h].present

canRunApt(h) ==
    /\ host[h].platform = "linux"
    /\ hasBinary(h, "apt-get")
    /\ host[h].uid = 0


\* BuildAttempts with the apt block of lines 490-493 ahead of the brew block
BuildAttemptsAptFirst(h, allow, prefs, brewExe) ==
    LET brewPart == IF prefs.preferBrew /\ brewExe # None /\ Len(allow.brew) > 0
                    THEN [i \in 1..Len(allow.brew) |->
                            [kind |-> "brew", argv |-> <<brewExe, "install", allow.brew[i]>>]]
                    ELSE <<>>
        aptPart  == IF canRunApt(h) /\ Len(allow.apt) > 0
                    THEN << [kind |-> "apt",
                             argv |-> <<"apt-get", "install", "-y">> \o allow.apt] >>
                    ELSE <<>>
        nodePart == [i \in 1..Len(allow.node) |->
                        [kind |-> "node", argv |-> buildNodeInstallCommand(allow.node[i], prefs)]]
        goPart   == [i \in 1..Len(allow.go) |->
                        [kind |-> "go", argv |-> <<"go", "install", allow.go[i]>>]]
    IN  aptPart \o brewPart \o nodePart \o goPart

\* attempts, in the order of lines 484-503
BuildAttempts(h, allow, prefs, brewExe) ==
    LET brewPart == IF prefs.preferBrew /\ brewExe # None /\ Len(allow.brew) > 0
                    THEN [i \in 1..Len(allow.brew) |->
                            [kind |-> "brew", argv |-> <<brewExe, "install", allow.brew[i]>>]]
                    ELSE <<>>
        aptPart  == IF canRunApt(h) /\ Len(allow.apt) > 0
                    THEN << [kind |-> "apt",
                             argv |-> <<"apt-get", "install", "-y">> \o allow.apt] >>
                    ELSE <<>>
        nodePart == [i \in 1..Len(allow.node) |->
                        [kind |-> "node", argv |-> buildNodeInstallCommand(allow.node[i], prefs)]]
        goPart   == [i \in 1..Len(allow.go) |->
                        [kind |-> "go", argv |-> <<"go", "install", allow.go[i]>>]]
    IN  brewPart \o aptPart \o nodePart \o goPart

---------------------------------------------------------------------------
(* Collaborator responses *)

\* What the process runner can answer: {stdout, stderr, code}, or an
\* exception.  placed: whether the run left the wanted binary on the path.
Response(throws, code, placed, stdout, stderr) ==
    [throws |-> throws, code |-> code, placed |-> placed,
     stdout |-> stdout, stderr |-> stderr, http |-> "ok"]

FailText == <<"note: resolving", "Error: architecture mismatch, required: arm64", "">>

PlainResponses ==
    { Response(FALSE, 0, FALSE, <<"done", "">>, <<>>),
      Response(FALSE, 1, FALSE, <<>>, FailText),
      Response(FALSE, NULL, FALSE, <<>>, <<>>),
      Response(TRUE, NULL, FALSE, <<>>, <<>>) }

RunResponses ==
    PlainResponses
      \cup { Response(FALSE, 0, TRUE, <<"done", "">>, <<"", "warning: already linked">>) }

\* What the guarded fetch can answer: an exception (no handle), or a handle
\* whose response is ok with a body, not ok, or ok without a body
FetchResponses ==
    { [Response(FALSE, 0, FALSE, <<>>, <<>>) EXCEPT !.http = s] :
        s \in {"ok", "404", "nobody"} }
    \cup { Response(TRUE, NULL, FALSE, <<>>, <<>>) }

\* What the file system can answer to ensureDir / pipeline / stat
FsResponses ==
    { Response(FALSE, 0, FALSE, <<>>, <<>>), Response(TRUE, NULL, FALSE, <<>>, <<>>) }


\* What writing the body can answer, lines 268-275: all three steps return,
\* or ensureDir, pipeline or stat throws
SaveResponses ==
    { Response(FALSE, 0, FALSE, <<>>, <<>>) }
    \cup { [Response(TRUE, NULL, FALSE, <<>>, <<>>) EXCEPT !.http = s] :
             s \in {"ensureDir", "pipeline", "stat"} }

\* The next response of call c's collaborators: the recorded one when the
\* oracle already holds it, else any of S
Ask(c, S) ==
    LET o == call[c].oracle
        k == call[c].asked + 1
    IN  IF k <= Len(oracle[o]) THEN {oracle[o][k]} ELSE S

Told(c, r) ==
    oracle' = [oracle EXCEPT ![call[c].oracle] =
                  IF call[c].asked + 1 <= Len(@) THEN @ ELSE Append(@, r)]

---------------------------------------------------------------------------
(* Calls *)

Finished(c) == call[c].pc \in {"idle", "done", "threw"}


\* CanStep with an at-most-one-in-flight lock around installSkill
CanStepOneInFlight(c) ==
    \A d \in Calls : d < c => Finished(d)

\* Calls that replay the same responses run one after the other
CanStep(c) ==
    \A d \in Calls : (d < c /\ call[d].oracle = call[c].oracle) => Finished(d)

HostOf(c) == call[c].host
Entry(c) == call[c].inp.entries[call[c].entry]
TheSpec(c) == Entry(c).install[call[c].spec]

ReturnFrom(rec, result) ==
    [rec EXCEPT !.pc = "done", !.result = result]

Return(c, result) == ReturnFrom(call[c], result)

Launch(c, phase, bin, argv, timeoutMs, r) ==
    [phase |-> phase, bin |-> bin, argv |-> argv, timeoutMs |-> timeoutMs,
     env |-> call[c].env, code |-> r.code, threw |-> r.throws]

\* index of the first entry named skillName (0: none)
RECURSIVE findEntry(_, _, _)
findEntry(entries, skillName, i) ==
    IF i > Len(entries) THEN 0
    ELSE IF entries[i].name = skillName THEN i
    ELSE findEntry(entries, skillName, i + 1)

\* Faulty variant of LoadSkill: a skill whose manifest has no spec of the
\* requested id is not scanned
LoadSkillScansKnownIdOnly(c) ==
    /\ call[c].pc = "start"
    /\ CanStep(c)
    /\ LET inp == call[c].inp
           t   == clampTimeout(inp.timeoutMs)
           e   == findEntry(inp.entries, inp.skillName, 1)
       IN  call' = [call EXCEPT ![c] =
              IF e = 0
              THEN [Return(c, Result(FALSE, <<"Skill not found", inp.skillName>>,
                                     <<>>, <<>>, NULL))
                      EXCEPT !.timeoutMs = t]
              ELSE [@ EXCEPT !.pc = IF findInstallSpec(inp.entries[e], inp.installId) = 0
                                    THEN "dispatch" ELSE "scan",
                             !.timeoutMs = t, !.entry = e,
                             !.spec = findInstallSpec(inp.entries[e], inp.installId)]]
    /\ UNCHANGED <<host, oracle>>

\* installSkill, lines 620-635: clamp, load the entries, find the skill and
\* its install spec
LoadSkill(c) ==
    /\ call[c].pc = "start"
    /\ CanStep(c)
    /\ LET inp == call[c].inp
           t   == clampTimeout(inp.timeoutMs)
           e   == findEntry(inp.entries, inp.skillName, 1)
       IN  call' = [call EXCEPT ![c] =
              IF e = 0
              THEN [Return(c, Result(FALSE, <<"Skill not found", inp.skillName>>,
                                     <<>>, <<>>, NULL))
                      EXCEPT !.timeoutMs = t]
              ELSE [@ EXCEPT !.pc = "scan", !.timeoutMs = t, !.entry = e,
                             !.spec = findInstallSpec(inp.entries[e], inp.installId)]]
    /\ UNCHANGED <<host, oracle>>

\* Faulty variant of Scan: critical findings end the call
ScanBlocksOnCritical(c) ==
    /\ call[c].pc = "scan"
    /\ CanStep(c)
    /\ \E outcome \in ScanOutcomes :
          LET warnings == collectSkillInstallScanWarnings(Entry(c).name, outcome)
              me       == [call[c] EXCEPT !.scans = @ + 1, !.scanned = outcome,
                                          !.warnings = warnings]
          IN  call' = [call EXCEPT ![c] =
                 IF ~outcome.throws /\ outcome.critical > 0
                 THEN ReturnFrom(me, withWarnings(
                          Result(FALSE, <<"Skill blocked by security scan">>,
                                 <<>>, <<>>, NULL), warnings))
                 ELSE [me EXCEPT !.pc = "dispatch"]]
    /\ UNCHANGED <<host, oracle>>

\* line 636: the scan returns (or throws, which collect... catches)
Scan(c) ==
    /\ call[c].pc = "scan"
    /\ CanStep(c)
    /\ \E outcome \in ScanOutcomes :
          call' = [call EXCEPT ![c] =
              [@ EXCEPT !.pc = "dispatch", !.scans = @ + 1, !.scanned = outcome,
                        !.warnings = collectSkillInstallScanWarnings(Entry(c).name, outcome)]]
    /\ UNCHANGED <<host, oracle>>


\* Faulty variant of Dispatch: a download spec takes the path of the
\* package-manager specs
DispatchDownloadToResolver(c) ==
    /\ call[c].pc = "dispatch"
    /\ CanStep(c)
    /\ call' = [call EXCEPT ![c] =
          IF call[c].spec = 0
          THEN Return(c, withWarnings(
                   Result(FALSE, <<"Installer not found", call[c].inp.installId>>,
                          <<>>, <<>>, NULL), call[c].warnings))
          ELSE [@ EXCEPT !.pc = "build"]]
    /\ UNCHANGED <<host, oracle>>

\* Faulty variant of Dispatch: the failure for an unknown install id leaves
\* the scan warnings out
DispatchDropsWarnings(c) ==
    /\ call[c].pc = "dispatch"
    /\ CanStep(c)
    /\ call' = [call EXCEPT ![c] =
          IF call[c].spec = 0
          THEN Return(c, Result(FALSE, <<"Installer not found", call[c].inp.installId>>,
                                <<>>, <<>>, NULL))
          ELSE IF TheSpec(c).kind = "download"
          THEN [@ EXCEPT !.pc = "download"]
          ELSE [@ EXCEPT !.pc = "build"]]
    /\ UNCHANGED <<host, oracle>>

\* lines 637-652
Dispatch(c) ==
    /\ call[c].pc = "dispatch"
    /\ CanStep(c)
    /\ call' = [call EXCEPT ![c] =
          IF call[c].spec = 0
          THEN Return(c, withWarnings(
                   Result(FALSE, <<"Installer not found", call[c].inp.installId>>,
                          <<>>, <<>>, NULL), call[c].warnings))
          ELSE IF TheSpec(c).kind = "download"
          THEN [@ EXCEPT !.pc = "download"]
          ELSE [@ EXCEPT !.pc = "build"]]
    /\ UNCHANGED <<host, oracle>>

\* JSON.stringify of the debug object, lines 657-673: one line per defined
\* field (undefined fields are left out)
Field(key, value) == IF value = None THEN <<>> ELSE <<key \o ": " \o value>>

debugPayload(entry, installId, spec) ==
    <<"skill.name: " \o entry.name, "installId: " \o installId,
      "spec.kind: " \o spec.kind>>
       \o Field("spec.id", spec.id) \o Field("spec.formula", spec.formula)
       \o Field("spec.package", spec.package) \o Field("spec.module", spec.module)

\* Faulty variant of BuildCommand: a resolver error does not end the call
BuildCommandGoesOn(c) ==
    /\ call[c].pc = "build"
    /\ CanStep(c)
    /\ LET command == buildInstallCommand(TheSpec(c), call[c].inp.prefs)
       IN  call' = [call EXCEPT ![c] = [@ EXCEPT !.pc = "brew", !.argv = command.argv]]
    /\ UNCHANGED <<host, oracle>>

\* lines 654-678
BuildCommand(c) ==
    /\ call[c].pc = "build"
    /\ CanStep(c)
    /\ LET command == buildInstallCommand(TheSpec(c), call[c].inp.prefs)
       IN  call' = [call EXCEPT ![c] =
              IF command.error # None
              THEN Return(c, withWarnings(
                       Result(FALSE, <<command.error>>, <<>>,
                              <<"Invalid installer spec (debug follows)">>
                                 \o debugPayload(Entry(c), call[c].inp.installId,
                                                 TheSpec(c)),
                              NULL),
                       call[c].warnings))
              ELSE [@ EXCEPT !.pc = "brew", !.argv = command.argv]]
    /\ UNCHANGED <<host, oracle>>


\* Faulty variant of ResolveBrew: a missing brew executable ends the call
\* whatever the kind of the spec
ResolveBrewFatalForAll(c) ==
    /\ call[c].pc = "brew"
    /\ CanStep(c)
    /\ LET brewExe == IF hasBinary(HostOf(c), "brew") THEN "brew"
                      ELSE host[HostOf(c)].brewPath
       IN  call' = [call EXCEPT ![c] =
              IF brewExe = None
              THEN Return(c, withWarnings(
                       Result(FALSE, <<"brew not installed">>, <<>>, <<>>, NULL),
                       call[c].warnings))
              ELSE [@ EXCEPT !.pc = "prereq", !.brewExe = brewExe]]
    /\ UNCHANGED <<host, oracle>>

\* lines 680-692
ResolveBrew(c) ==
    /\ call[c].pc = "brew"
    /\ CanStep(c)
    /\ LET brewExe == IF hasBinary(HostOf(c), "brew") THEN "brew"
                      ELSE host[HostOf(c)].brewPath
       IN  call' = [call EXCEPT ![c] =
              IF TheSpec(c).kind = "brew" /\ brewExe = None
              THEN Return(c, withWarnings(
                       Result(FALSE, <<"brew not installed">>, <<>>, <<>>, NULL),
                       call[c].warnings))
              ELSE [@ EXCEPT !.pc = "prereq", !.brewExe = brewExe]]
    /\ UNCHANGED <<host, oracle>>

---------------------------------------------------------------------------
(* Prerequisite Resolver *)

\* The warnings of ensurePrerequisiteBins (line 558): nothing is ever pushed
\* to the array it returns
PrereqWarnings == <<>>

\* Faulty variant of PrereqFails: the failure of the resolver is noted and
\* the call goes on to the bootstrap and the final command
PrereqFailsGoesOn(rec, message, stdout, stderr) ==
    [rec EXCEPT !.pc = "bootstrap", !.warnings = @ \o PrereqWarnings,
                !.prereq = [status |-> "failed", message |-> message,
                            stdout |-> stdout, stderr |-> stderr]]

\* ensurePrerequisiteBins returned ok=false: installSkill, lines 702-714
PrereqFails(rec, message, stdout, stderr) ==
    ReturnFrom(
        [rec EXCEPT !.warnings = @ \o PrereqWarnings,
                    !.prereq = [status |-> "failed", message |-> message,
                                stdout |-> stdout, stderr |-> stderr]],
        withWarnings(Result(FALSE, message, TrimText(stdout), TrimText(stderr), NULL),
                     rec.warnings \o PrereqWarnings))

\* ensurePrerequisiteBins returned ok=true
PrereqOk(rec, stdout, stderr) ==
    [rec EXCEPT !.pc = "bootstrap", !.warnings = @ \o PrereqWarnings,
                !.prereq = [status |-> "ok", message |-> <<>>,
                            stdout |-> stdout, stderr |-> stderr]]


\* Faulty variant of EnsurePrereq: a module-level record of the binaries
\* earlier calls tried to install is consulted, and those are skipped
EnsurePrereqRemembersAttempts(c) ==
    /\ call[c].pc = "prereq"
    /\ CanStep(c)
    /\ LET h        == HostOf(c)
           specBins == SelectSeq(TrimAll(TheSpec(c).bins), NonEmptyStr)
           required == uniqueNonEmpty(Entry(c).requiresBins \o specBins)
           anyBins  == uniqueNonEmpty(Entry(c).anyBins)
           tried    == UNION { {call[d].attempted[i].bin : i \in DOMAIN call[d].attempted} :
                                  d \in Calls \ {c} }
           missing  == SelectSeq(required, LAMBDA b : ~hasBinary(h, b) /\ b \notin tried)
           hasAny   == IF Len(anyBins) = 0 THEN TRUE
                       ELSE \E i \in DOMAIN anyBins : hasBinary(h, anyBins[i])
           rec      == [call[c] EXCEPT !.required = required, !.missing = missing,
                                       !.anyBins = anyBins,
                                       !.pathSeen = host[h].present]
       IN  call' = [call EXCEPT ![c] =
              IF ~hasAny /\ Len(anyBins) > 0
              THEN PrereqFails(rec, <<"Missing prerequisite: need one of">> \o anyBins,
                               <<>>, <<>>)
              ELSE IF Len(missing) = 0 THEN PrereqOk(rec, <<>>, <<>>)
              ELSE [rec EXCEPT !.pc = "try", !.binIdx = 1]]
    /\ UNCHANGED <<host, oracle>>

\* Faulty variant of EnsurePrereq: every required binary is installed,
\* discoverable or not
EnsurePrereqAllRequired(c) ==
    /\ call[c].pc = "prereq"
    /\ CanStep(c)
    /\ LET h        == HostOf(c)
           specBins == SelectSeq(TrimAll(TheSpec(c).bins), NonEmptyStr)
           required == uniqueNonEmpty(Entry(c).requiresBins \o specBins)
           anyBins  == uniqueNonEmpty(Entry(c).anyBins)
           hasAny   == IF Len(anyBins) = 0 THEN TRUE
                       ELSE \E i \in DOMAIN anyBins : hasBinary(h, anyBins[i])
           rec      == [call[c] EXCEPT !.required = required, !.missing = required,
                                       !.anyBins = anyBins,
                                       !.pathSeen = host[h].present]
       IN  call' = [call EXCEPT ![c] =
              IF ~hasAny /\ Len(anyBins) > 0
              THEN PrereqFails(rec, <<"Missing prerequisite: need one of">> \o anyBins,
                               <<>>, <<>>)
              ELSE IF Len(required) = 0 THEN PrereqOk(rec, <<>>, <<>>)
              ELSE [rec EXCEPT !.pc = "try", !.binIdx = 1]]
    /\ UNCHANGED <<host, oracle>>

\* Faulty variant of EnsurePrereq: the any-of check is left out
EnsurePrereqNoAnyCheck(c) ==
    /\ call[c].pc = "prereq"
    /\ CanStep(c)
    /\ LET h        == HostOf(c)
           specBins == SelectSeq(TrimAll(TheSpec(c).bins), NonEmptyStr)
           required == uniqueNonEmpty(Entry(c).requiresBins \o specBins)
           missing  == SelectSeq(required, LAMBDA b : ~hasBinary(h, b))
           rec      == [call[c] EXCEPT !.required = required, !.missing = missing,
                                       !.anyBins = uniqueNonEmpty(Entry(c).anyBins),
                                       !.pathSeen = host[h].present]
       IN  call' = [call EXCEPT ![c] =
              IF Len(missing) = 0 THEN PrereqOk(rec, <<>>, <<>>)
              ELSE [rec EXCEPT !.pc = "try", !.binIdx = 1]]
    /\ UNCHANGED <<host, oracle>>


\* Faulty variant of EnsurePrereq: the bins of the spec come before
\* those of the manifest
EnsurePrereqSpecBinsFirst(c) ==
    /\ call[c].pc = "prereq"
    /\ CanStep(c)
    /\ LET h        == HostOf(c)
           specBins == SelectSeq(TrimAll(TheSpec(c).bins), NonEmptyStr)
           required == uniqueNonEmpty(specBins \o Entry(c).requiresBins)
           anyBins  == uniqueNonEmpty(Entry(c).anyBins)
           missing  == SelectSeq(required, LAMBDA b : ~hasBinary(h, b))
           hasAny   == IF Len(anyBins) = 0 THEN TRUE
                       ELSE \E i \in DOMAIN anyBins : hasBinary(h, anyBins[i])
           rec      == [call[c] EXCEPT !.required = required, !.missing = missing,
                                       !.anyBins = anyBins,
                                       !.pathSeen = host[h].present]
       IN  call' = [call EXCEPT ![c] =
              IF ~hasAny /\ Len(anyBins) > 0
              THEN PrereqFails(rec, <<"Missing prerequisite: need one of">> \o anyBins,
                               <<>>, <<>>)
              ELSE IF Len(missing) = 0 THEN PrereqOk(rec, <<>>, <<>>)
              ELSE [rec EXCEPT !.pc = "try", !.binIdx = 1]]
    /\ UNCHANGED <<host, oracle>>

\* ensurePrerequisiteBins, lines 557-580: the required and the missing
\* binaries, the any-of check
EnsurePrereq(c) ==
    /\ call[c].pc = "prereq"
    /\ CanStep(c)
    /\ LET h        == HostOf(c)
           specBins == SelectSeq(TrimAll(TheSpec(c).bins), NonEmptyStr)
           required == uniqueNonEmpty(Entry(c).requiresBins \o specBins)
           anyBins  == uniqueNonEmpty(Entry(c).anyBins)
           missing  == SelectSeq(required, LAMBDA b : ~hasBinary(h, b))
           hasAny   == IF Len(anyBins) = 0 THEN TRUE
                       ELSE \E i \in DOMAIN anyBins : hasBinary(h, anyBins[i])
           rec      == [call[c] EXCEPT !.required = required, !.missing = missing,
                                       !.anyBins = anyBins,
                                       !.pathSeen = host[h].present]
       IN  call' = [call EXCEPT ![c] =
              IF ~hasAny /\ Len(anyBins) > 0
              THEN PrereqFails(rec, <<"Missing prerequisite: need one of">> \o anyBins,
                               <<>>, <<>>)
              ELSE IF Len(missing) = 0 THEN PrereqOk(rec, <<>>, <<>>)
              ELSE [rec EXCEPT !.pc = "try", !.binIdx = 1]]
    /\ UNCHANGED <<host, oracle>>

\* Faulty variant of AfterAttempt: a failed attempt does not stop the loop
\* over the missing binaries
AfterAttemptNoStop(me, attempt) ==
    LET outParts == me.stdoutParts
                      \o <<"==> prereq " \o attempt.bin \o ": " \o attempt.message>>
                      \o attempt.stdout
        rec      == [me EXCEPT !.stdoutParts = outParts,
                               !.attempted = Append(@, attempt)]
    IN  IF me.binIdx < Len(me.missing)
        THEN [rec EXCEPT !.pc = "try", !.binIdx = @ + 1, !.attempts = <<>>, !.attIdx = 0]
        ELSE IF ~attempt.ok
        THEN PrereqFails(rec, <<attempt.message>>, outParts, me.stderrParts)
        ELSE [rec EXCEPT !.pc = "recheck"]

\* ensurePrerequisiteBins, lines 586-599: an attempt came back
AfterAttempt(me, attempt) ==
    LET outParts == me.stdoutParts
                      \o <<"==> prereq " \o attempt.bin \o ": " \o attempt.message>>
                      \o attempt.stdout
        errParts == IF attempt.stderr # <<>>
                    THEN me.stderrParts \o <<"==> prereq " \o attempt.bin \o " stderr">>
                           \o attempt.stderr
                    ELSE me.stderrParts
        rec      == [me EXCEPT !.stdoutParts = outParts, !.stderrParts = errParts,
                               !.attempted = Append(@, attempt)]
    IN  IF ~attempt.ok THEN PrereqFails(rec, <<attempt.message>>, outParts, errParts)
        ELSE IF me.binIdx < Len(me.missing)
        THEN [rec EXCEPT !.pc = "try", !.binIdx = @ + 1, !.attempts = <<>>, !.attIdx = 0]
        ELSE [rec EXCEPT !.pc = "recheck"]

Attempt(bin, ok, message, stdout, stderr, code) ==
    [bin |-> bin, ok |-> ok, message |-> message, stdout |-> stdout,
     stderr |-> stderr, code |-> code]

\* tryInstallPrereqBin, lines 469-515: the allow-list lookup and the
\* candidate chain of the next missing binary
TryInstall(c) ==
    /\ call[c].pc = "try"
    /\ CanStep(c)
    /\ LET h        == HostOf(c)
           bin      == call[c].missing[call[c].binIdx]
           allow    == allowOf(bin)
           attempts == BuildAttempts(h, allow.entry, call[c].inp.prefs, call[c].brewExe)
           aptNote  == IF hasBinary(h, "apt-get") /\ host[h].platform = "linux"
                       THEN " (apt-get present but needs root)" ELSE ""
       IN  call' = [call EXCEPT ![c] =
              IF ~allow.listed
              THEN AfterAttempt(@, Attempt(bin, FALSE,
                       "No auto-installer allowlisted for missing binary: " \o bin,
                       <<>>, <<>>, NULL))
              ELSE IF Len(attempts) = 0
              THEN AfterAttempt(@, Attempt(bin, FALSE,
                       "No applicable installer for " \o bin \o aptNote,
                       <<>>, <<>>, NULL))
              ELSE [@ EXCEPT !.pc = "attempt", !.attempts = attempts, !.attIdx = 1]]
    /\ UNCHANGED <<host, oracle>>

\* the run of an installer leaves the binary on the lookup path, or not
Placed(h, bin, r) ==
    host' = IF r.placed THEN [host EXCEPT ![h].present = @ \cup {bin}] ELSE host

\* call c after the process runner answered r to argv
Ran(c, phase, bin, argv, timeoutMs, r) ==
    [call[c] EXCEPT !.asked = @ + 1,
                    !.launched = Append(@, Launch(c, phase, bin, argv, timeoutMs, r))]

\* tryInstallPrereqBin, lines 517-529: the next candidate runs
RunAttempt(c) ==
    /\ call[c].pc = "attempt"
    /\ CanStep(c)
    /\ \E r \in Ask(c, RunResponses) :
          LET bin     == call[c].missing[call[c].binIdx]
              attempt == call[c].attempts[call[c].attIdx]
              me      == Ran(c, "prereq", bin, attempt.argv, call[c].timeoutMs, r)
          IN  /\ Told(c, r)
              /\ Placed(HostOf(c), bin, r)
              /\ call' = [call EXCEPT ![c] =
                    IF r.throws THEN [me EXCEPT !.pc = "threw"]
                    ELSE IF r.code = 0
                    THEN AfterAttempt(me, Attempt(bin, TRUE,
                             "Installed prerequisite (" \o attempt.kind \o "): " \o bin,
                             TrimText(r.stdout), TrimText(r.stderr), r.code))
                    ELSE IF me.attIdx < Len(me.attempts)
                    THEN [me EXCEPT !.attIdx = @ + 1]
                    ELSE [me EXCEPT !.pc = "rerun"]]

\* tryInstallPrereqBin, lines 531-541: every candidate failed; the last one
\* is run again and its output returned
RerunLast(c) ==
    /\ call[c].pc = "rerun"
    /\ CanStep(c)
    /\ \E r \in Ask(c, RunResponses) :
          LET bin  == call[c].missing[call[c].binIdx]
              last == call[c].attempts[Len(call[c].attempts)]
              me   == Ran(c, "prereq", bin, last.argv, call[c].timeoutMs, r)
          IN  /\ Told(c, r)
              /\ Placed(HostOf(c), bin, r)
              /\ call' = [call EXCEPT ![c] =
                    IF r.throws THEN [me EXCEPT !.pc = "threw"]
                    ELSE AfterAttempt(me, Attempt(bin, FALSE,
                             "Failed to auto-install prerequisite (" \o last.kind \o "): " \o bin,
                             TrimText(r.stdout), TrimText(r.stderr), r.code))]

\* Faulty variant of Recheck: waits until the binaries are there
RecheckWaits(c) ==
    /\ call[c].pc = "recheck"
    /\ CanStep(c)
    /\ \A i \in DOMAIN call[c].missing : hasBinary(HostOf(c), call[c].missing[i])
    /\ call' = [call EXCEPT ![c] = PrereqOk(@, @.stdoutParts, @.stderrParts)]
    /\ UNCHANGED <<host, oracle>>

\* Faulty variant of Recheck: the installers are taken at their word
RecheckSkipped(c) ==
    /\ call[c].pc = "recheck"
    /\ CanStep(c)
    /\ call' = [call EXCEPT ![c] = PrereqOk(@, @.stdoutParts, @.stderrParts)]
    /\ UNCHANGED <<host, oracle>>

\* ensurePrerequisiteBins, lines 601-618: the re-check after the installs
Recheck(c) ==
    /\ call[c].pc = "recheck"
    /\ CanStep(c)
    /\ LET h            == HostOf(c)
           stillMissing == SelectSeq(call[c].missing, LAMBDA b : ~hasBinary(h, b))
       IN  call' = [call EXCEPT ![c] =
              IF Len(stillMissing) > 0
              THEN PrereqFails(@, <<"Prerequisites still missing after auto-install">>
                                    \o stillMissing,
                               @.stdoutParts, @.stderrParts)
              ELSE PrereqOk(@, @.stdoutParts, @.stderrParts)]
    /\ UNCHANGED <<host, oracle>>

---------------------------------------------------------------------------
(* Orchestrator: bootstrap, environment, final command *)

ToolMissing(rec, tool) ==
    ReturnFrom(rec, withWarnings(
        Result(FALSE, <<tool \o " not installed (install via brew)">>, <<>>, <<>>, NULL),
        rec.warnings))


\* Faulty variant of Bootstrap: without a brew executable the missing tool
\* is left for the final command to find out
BootstrapLeavesToolMissing(c) ==
    /\ call[c].pc = "bootstrap"
    /\ CanStep(c)
    /\ LET h    == HostOf(c)
           kind == TheSpec(c).kind
           me   == call[c]
       IN  call' = [call EXCEPT ![c] =
              IF kind = "uv" /\ ~hasBinary(h, "uv") /\ me.brewExe # None
              THEN [me EXCEPT !.pc = "bootrun", !.tool = "uv"]
              ELSE IF Len(me.argv) = 0
              THEN ReturnFrom(me, withWarnings(
                       Result(FALSE, <<"invalid install command">>, <<>>, <<>>, NULL),
                       me.warnings))
              ELSE IF kind = "go" /\ ~hasBinary(h, "go") /\ me.brewExe # None
              THEN [me EXCEPT !.pc = "bootrun", !.tool = "go"]
              ELSE IF kind = "brew" /\ me.brewExe # None /\ me.argv[1] = "brew"
              THEN [me EXCEPT !.pc = "env", !.argv = [me.argv EXCEPT ![1] = me.brewExe]]
              ELSE [me EXCEPT !.pc = "env"]]
    /\ UNCHANGED <<host, oracle>>


\* Faulty variant of Bootstrap: brew installs the tool only for a caller
\* who prefers brew
BootstrapHonoursPreferBrew(c) ==
    /\ call[c].pc = "bootstrap"
    /\ CanStep(c)
    /\ LET h    == HostOf(c)
           kind == TheSpec(c).kind
           me   == call[c]
           brew == me.brewExe # None /\ me.inp.prefs.preferBrew
       IN  call' = [call EXCEPT ![c] =
              IF kind = "uv" /\ ~hasBinary(h, "uv")
              THEN IF brew
                   THEN [me EXCEPT !.pc = "bootrun", !.tool = "uv"]
                   ELSE ToolMissing(me, "uv")
              ELSE IF Len(me.argv) = 0
              THEN ReturnFrom(me, withWarnings(
                       Result(FALSE, <<"invalid install command">>, <<>>, <<>>, NULL),
                       me.warnings))
              ELSE IF kind = "go" /\ ~hasBinary(h, "go")
              THEN IF brew
                   THEN [me EXCEPT !.pc = "bootrun", !.tool = "go"]
                   ELSE ToolMissing(me, "go")
              ELSE IF kind = "brew" /\ me.brewExe # None /\ me.argv[1] = "brew"
              THEN [me EXCEPT !.pc = "env", !.argv = [me.argv EXCEPT ![1] = me.brewExe]]
              ELSE [me EXCEPT !.pc = "env"]]
    /\ UNCHANGED <<host, oracle>>

\* installSkill, lines 715-716, 732-763 and 779-791: is the installer tool
\* of a uv or go spec there?
Bootstrap(c) ==
    /\ call[c].pc = "bootstrap"
    /\ CanStep(c)
    /\ LET h    == HostOf(c)
           kind == TheSpec(c).kind
           me   == call[c]
       IN  call' = [call EXCEPT ![c] =
              IF kind = "uv" /\ ~hasBinary(h, "uv")
              THEN IF me.brewExe # None
                   THEN [me EXCEPT !.pc = "bootrun", !.tool = "uv"]
                   ELSE ToolMissing(me, "uv")
              ELSE IF Len(me.argv) = 0
              THEN ReturnFrom(me, withWarnings(
                       Result(FALSE, <<"invalid install command">>, <<>>, <<>>, NULL),
                       me.warnings))
              ELSE IF kind = "go" /\ ~hasBinary(h, "go")
              THEN IF me.brewExe # None
                   THEN [me EXCEPT !.pc = "bootrun", !.tool = "go"]
                   ELSE ToolMissing(me, "go")
              ELSE IF kind = "brew" /\ me.brewExe # None /\ me.argv[1] = "brew"
              THEN [me EXCEPT !.pc = "env", !.argv = [me.argv EXCEPT ![1] = me.brewExe]]
              ELSE [me EXCEPT !.pc = "env"]]
    /\ UNCHANGED <<host, oracle>>


\* Faulty variant of BootRun: the outcome of the bootstrap is not looked at
BootRunGoesOn(c) ==
    /\ call[c].pc = "bootrun"
    /\ CanStep(c)
    /\ \E r \in Ask(c, RunResponses) :
          LET tool == call[c].tool
              me   == Ran(c, "bootstrap", tool, <<call[c].brewExe, "install", tool>>,
                          call[c].timeoutMs, r)
          IN  /\ Told(c, r)
              /\ Placed(HostOf(c), tool, r)
              /\ call' = [call EXCEPT ![c] =
                    IF r.throws THEN [me EXCEPT !.pc = "threw"]
                    ELSE [me EXCEPT !.pc = "env"]]

\* Faulty variant of BootRun: only a numeric non-zero exit code fails the
\* bootstrap
BootRunIgnoresTimeout(c) ==
    /\ call[c].pc = "bootrun"
    /\ CanStep(c)
    /\ \E r \in Ask(c, RunResponses) :
          LET tool == call[c].tool
              me   == Ran(c, "bootstrap", tool, <<call[c].brewExe, "install", tool>>,
                          call[c].timeoutMs, r)
          IN  /\ Told(c, r)
              /\ Placed(HostOf(c), tool, r)
              /\ call' = [call EXCEPT ![c] =
                    IF r.throws THEN [me EXCEPT !.pc = "threw"]
                    ELSE IF r.code > 0
                    THEN ReturnFrom(me, withWarnings(
                             Result(FALSE, <<"Failed to install " \o tool \o " (brew)">>,
                                    TrimText(r.stdout), TrimText(r.stderr), r.code),
                             me.warnings))
                    ELSE [me EXCEPT !.pc = "env"]]

\* installSkill, lines 717-731 and 764-778: brew install uv / brew install go
BootRun(c) ==
    /\ call[c].pc = "bootrun"
    /\ CanStep(c)
    /\ \E r \in Ask(c, RunResponses) :
          LET tool == call[c].tool
              me   == Ran(c, "bootstrap", tool, <<call[c].brewExe, "install", tool>>,
                          call[c].timeoutMs, r)
          IN  /\ Told(c, r)
              /\ Placed(HostOf(c), tool, r)
              /\ call' = [call EXCEPT ![c] =
                    IF r.throws THEN [me EXCEPT !.pc = "threw"]
                    ELSE IF r.code # 0
                    THEN ReturnFrom(me, withWarnings(
                             Result(FALSE, <<"Failed to install " \o tool \o " (brew)">>,
                                    TrimText(r.stdout), TrimText(r.stderr), r.code),
                             me.warnings))
                    ELSE [me EXCEPT !.pc = "env"]]

\* installSkill, lines 793-799, and resolveBrewBinDir, lines 391-394
ResolveEnv(c) ==
    /\ call[c].pc = "env"
    /\ CanStep(c)
    /\ call' = [call EXCEPT ![c] =
          IF TheSpec(c).kind = "go" /\ @.brewExe # None
          THEN [@ EXCEPT !.pc = "prefix"] ELSE [@ EXCEPT !.pc = "final"]]
    /\ UNCHANGED <<host, oracle>>


\* Faulty variant of PrefixRun: the probe gets the whole timeout of the call
PrefixRunWholeTimeout(c) ==
    /\ call[c].pc = "prefix"
    /\ CanStep(c)
    /\ \E r \in Ask(c, PlainResponses) :
          LET me == Ran(c, "prefix", None, <<call[c].brewExe, "--prefix">>,
                        call[c].timeoutMs, r)
          IN  /\ Told(c, r)
              /\ call' = [call EXCEPT ![c] =
                    IF r.throws THEN [me EXCEPT !.pc = "threw"]
                    ELSE IF r.code = 0 /\ TrimText(r.stdout) # <<>>
                    THEN [me EXCEPT !.pc = "final", !.env = "GOBIN=<prefix>/bin"]
                    ELSE [me EXCEPT !.pc = "final", !.env = host[HostOf(c)].brewBinFallback]]
    /\ UNCHANGED host

\* resolveBrewBinDir, lines 396-421: brew --prefix, then the fallbacks
PrefixRun(c) ==
    /\ call[c].pc = "prefix"
    /\ CanStep(c)
    /\ \E r \in Ask(c, PlainResponses) :
          LET me == Ran(c, "prefix", None, <<call[c].brewExe, "--prefix">>,
                        Min(call[c].timeoutMs, BREW_PREFIX_TIMEOUT_MS), r)
          IN  /\ Told(c, r)
              /\ call' = [call EXCEPT ![c] =
                    IF r.throws THEN [me EXCEPT !.pc = "threw"]
                    ELSE IF r.code = 0 /\ TrimText(r.stdout) # <<>>
                    THEN [me EXCEPT !.pc = "final", !.env = "GOBIN=<prefix>/bin"]
                    ELSE [me EXCEPT !.pc = "final", !.env = host[HostOf(c)].brewBinFallback]]
    /\ UNCHANGED host

\* Faulty variant of FinalRun: an exception of the runner is not caught
FinalRunPropagates(c) ==
    /\ call[c].pc = "final"
    /\ CanStep(c)
    /\ \E r \in Ask(c, PlainResponses) :
          LET me     == Ran(c, "final", None, call[c].argv, call[c].timeoutMs, r)
              result == [code |-> r.code, stdout |-> r.stdout, stderr |-> r.stderr]
              success == result.code = 0
              mergedStdout == JoinNonEmpty(<<TrimText(me.prereq.stdout), TrimText(result.stdout)>>)
              mergedStderr == JoinNonEmpty(<<TrimText(me.prereq.stderr), TrimText(result.stderr)>>)
          IN  /\ Told(c, r)
              /\ call' = [call EXCEPT ![c] =
                    IF r.throws THEN [me EXCEPT !.pc = "threw"]
                    ELSE ReturnFrom(me, withWarnings(
                        Result(success,
                               IF success THEN <<"Installed">>
                               ELSE formatInstallFailureMessage(HostOf(c),
                                        [code |-> result.code, stdout |-> mergedStdout,
                                         stderr |-> mergedStderr]),
                               mergedStdout, mergedStderr, result.code),
                        me.warnings))]
    /\ UNCHANGED host

\* Faulty variant of FinalRun: the output of the final command is put before
\* the output of the prerequisite phase
FinalRunFinalFirst(c) ==
    /\ call[c].pc = "final"
    /\ CanStep(c)
    /\ \E r \in Ask(c, PlainResponses) :
          LET me     == Ran(c, "final", None, call[c].argv, call[c].timeoutMs, r)
              result == IF r.throws
                        THEN [code |-> NULL, stdout |-> <<>>, stderr |-> <<"runner error">>]
                        ELSE [code |-> r.code, stdout |-> r.stdout, stderr |-> r.stderr]
              success == result.code = 0
              mergedStdout == JoinNonEmpty(<<TrimText(result.stdout), TrimText(me.prereq.stdout)>>)
              mergedStderr == JoinNonEmpty(<<TrimText(result.stderr), TrimText(me.prereq.stderr)>>)
          IN  /\ Told(c, r)
              /\ call' = [call EXCEPT ![c] =
                    ReturnFrom(me, withWarnings(
                        Result(success,
                               IF success THEN <<"Installed">>
                               ELSE formatInstallFailureMessage(HostOf(c),
                                        [code |-> result.code, stdout |-> mergedStdout,
                                         stderr |-> mergedStderr]),
                               mergedStdout, mergedStderr, result.code),
                        me.warnings))]
    /\ UNCHANGED host

\* installSkill, lines 801-831: the final command, the merge, the result
FinalRun(c) ==
    /\ call[c].pc = "final"
    /\ CanStep(c)
    /\ \E r \in Ask(c, PlainResponses) :
          LET me     == Ran(c, "final", None, call[c].argv, call[c].timeoutMs, r)
              result == IF r.throws
                        THEN [code |-> NULL, stdout |-> <<>>, stderr |-> <<"runner error">>]
                        ELSE [code |-> r.code, stdout |-> r.stdout, stderr |-> r.stderr]
              success == result.code = 0
              mergedStdout == JoinNonEmpty(<<TrimText(me.prereq.stdout), TrimText(result.stdout)>>)
              mergedStderr == JoinNonEmpty(<<TrimText(me.prereq.stderr), TrimText(result.stderr)>>)
          IN  /\ Told(c, r)
              /\ call' = [call EXCEPT ![c] =
                    ReturnFrom(me, withWarnings(
                        Result(success,
                               IF success THEN <<"Installed">>
                               ELSE formatInstallFailureMessage(HostOf(c),
                                        [code |-> result.code, stdout |-> mergedStdout,
                                         stderr |-> mergedStderr]),
                               mergedStdout, mergedStderr, result.code),
                        me.warnings))]
    /\ UNCHANGED host

---------------------------------------------------------------------------
(* Archive Fetcher/Extractor *)

\* spec.url.trim(), then path.basename of the URL's pathname (of the text
\* itself when it is no URL), "download" when that is empty
UrlTrim == (" https://h/a.tgz " :> "https://h/a.tgz") @@ ("   " :> "")
trimUrl(u) == IF u = None THEN "" ELSE IF u \in DOMAIN UrlTrim THEN UrlTrim[u] ELSE u

Basenames ==
    ("https://h/tool.tar.gz" :> "tool.tar.gz") @@ ("https://h/a.tgz" :> "a.tgz")
    @@ ("https://h/Tool.ZIP" :> "Tool.ZIP") @@ ("https://h/tool.bin" :> "tool.bin")
    @@ ("https://h/x.tar.bz2" :> "x.tar.bz2") @@ ("https://h/" :> "")
    @@ ("not a url/y.tbz2" :> "y.tbz2")

filenameOf(url) ==
    LET base == IF url \in DOMAIN Basenames THEN Basenames[url] ELSE url
    IN  IF base = "" THEN "download" ELSE base

\* filename.toLowerCase() ends with the suffix
EndsTarGz  == {"tool.tar.gz", "a.tgz"}
EndsTarBz2 == {"x.tar.bz2", "y.tbz2"}
EndsZip    == {"Tool.ZIP"}

\* spec.archive?.trim().toLowerCase()
LowerTrim == (" ZIP " :> "zip") @@ ("Tar.Gz" :> "tar.gz") @@ ("  " :> "")
lowerTrim(a) == IF a \in DOMAIN LowerTrim THEN LowerTrim[a] ELSE a


\* resolveArchiveType with the filename looked at before the override
resolveArchiveTypeFilenameFirst(spec, filename) ==
    LET explicit == IF spec.archive = None THEN None ELSE lowerTrim(spec.archive)
    IN  IF filename \in EndsTarGz THEN "tar.gz"
        ELSE IF filename \in EndsTarBz2 THEN "tar.bz2"
        ELSE IF filename \in EndsZip THEN "zip"
        ELSE IF ~Falsy(explicit) THEN explicit
        ELSE None

\* None stands for undefined
resolveArchiveType(spec, filename) ==
    LET explicit == IF spec.archive = None THEN None ELSE lowerTrim(spec.archive)
    IN  IF ~Falsy(explicit) THEN explicit
        ELSE IF filename \in EndsTarGz THEN "tar.gz"
        ELSE IF filename \in EndsTarBz2 THEN "tar.bz2"
        ELSE IF filename \in EndsZip THEN "zip"
        ELSE None

resolveDownloadTargetDir(entry, spec) ==
    IF ~Falsy(spec.targetDir) /\ TrimStr(spec.targetDir) # ""
    THEN "~" \o spec.targetDir
    ELSE "<config>/tools/" \o entry.name



\* extractArgv without the Math.max(0, ...) of line 303
extractArgvNoFloorAtZero(archiveType, archivePath, targetDir, strip) ==
    IF archiveType = "zip"
    THEN <<"unzip", "-q", archivePath, "-d", targetDir>>
    ELSE <<"tar", "xf", archivePath, "-C", targetDir>>
           \o (IF strip.kind = "number"
               THEN <<"--strip-components", ToString(strip.tenths \div 10)>>
               ELSE <<>>)

\* extractArgv without the zip branch of lines 290-296
extractArgvTarOnly(archiveType, archivePath, targetDir, strip) ==
    <<"tar", "xf", archivePath, "-C", targetDir>>
       \o (IF strip.kind = "number"
           THEN <<"--strip-components", ToString(Max(0, strip.tenths \div 10))>>
           ELSE <<>>)

\* the argv of extractArchive, lines 294 and 301-304; stripComponents is a
\* number given in tenths, or not a finite number, or absent
extractArgv(archiveType, archivePath, targetDir, strip) ==
    IF archiveType = "zip"
    THEN <<"unzip", "-q", archivePath, "-d", targetDir>>
    ELSE <<"tar", "xf", archivePath, "-C", targetDir>>
           \o (IF strip.kind = "number"
               THEN <<"--strip-components", ToString(Max(0, strip.tenths \div 10))>>
               ELSE <<>>)

DownloadFails(rec, message) ==
    ReturnFrom(rec, withWarnings(Result(FALSE, message, <<>>, message, NULL), rec.warnings))

\* installDownloadSpec, lines 313-336
DownloadStart(c) ==
    /\ call[c].pc = "download"
    /\ CanStep(c)
    /\ LET url       == trimUrl(TheSpec(c).url)
           filename  == filenameOf(url)
           targetDir == resolveDownloadTargetDir(Entry(c), TheSpec(c))
       IN  call' = [call EXCEPT ![c] =
              IF Falsy(url)
              THEN ReturnFrom(@, withWarnings(
                       Result(FALSE, <<"missing download url">>, <<>>, <<>>, NULL),
                       @.warnings))
              ELSE [@ EXCEPT !.pc = "mkdir", !.url = url, !.filename = filename,
                             !.targetDir = targetDir,
                             !.archivePath = targetDir \o "/" \o filename]]
    /\ UNCHANGED <<host, oracle>>

\* installDownloadSpec, line 337: ensureDir(targetDir) returns or throws
EnsureTargetDir(c) ==
    /\ call[c].pc = "mkdir"
    /\ CanStep(c)
    /\ \E r \in Ask(c, FsResponses) :
          /\ Told(c, r)
          /\ call' = [call EXCEPT ![c] =
                [@ EXCEPT !.asked = @ + 1,
                          !.pc = IF r.throws THEN "threw" ELSE "fetch"]]
    /\ UNCHANGED host

\* downloadFile, lines 260-267, and the catch of lines 344-347
Fetch(c) ==
    /\ call[c].pc = "fetch"
    /\ CanStep(c)
    /\ \E r \in Ask(c, FetchResponses) :
          LET me == [call[c] EXCEPT
                        !.asked = @ + 1,
                        !.fetches = Append(@, [url |-> call[c].url,
                                               timeoutMs |-> Max(MIN_TIMEOUT_MS, call[c].timeoutMs),
                                               handle |-> ~r.throws])]
          IN  /\ Told(c, r)
              /\ call' = [call EXCEPT ![c] =
                    IF r.throws THEN DownloadFails(me, <<"fetch failed">>)
                    ELSE IF r.http # "ok"
                    THEN DownloadFails([me EXCEPT !.releases = @ + 1],
                                       <<"Download failed", r.http>>)
                    ELSE [me EXCEPT !.pc = "save"]]
    /\ UNCHANGED host


\* SaveBody with release() after the last statement of the try block
\* instead of in a finally clause
SaveBodyNoFinally(c) ==
    /\ call[c].pc = "save"
    /\ CanStep(c)
    /\ \E r \in Ask(c, SaveResponses) :
          LET me == [call[c] EXCEPT !.asked = @ + 1]
          IN  /\ Told(c, r)
              /\ call' = [call EXCEPT ![c] =
                    IF r.throws THEN DownloadFails(me, <<r.http \o " failed">>)
                    ELSE [me EXCEPT !.pc = "unpack", !.downloaded = "42",
                                    !.releases = @ + 1]]
    /\ UNCHANGED host

\* downloadFile, lines 268-279: the body is written, the handle released
SaveBody(c) ==
    /\ call[c].pc = "save"
    /\ CanStep(c)
    /\ \E r \in Ask(c, SaveResponses) :
          LET me == [call[c] EXCEPT !.asked = @ + 1, !.releases = @ + 1]
          IN  /\ Told(c, r)
              /\ call' = [call EXCEPT ![c] =
                    IF r.throws THEN DownloadFails(me, <<r.http \o " failed">>)
                    ELSE [me EXCEPT !.pc = "unpack", !.downloaded = "42"]]
    /\ UNCHANGED host


\* ExtractResult with ok standing for "the extraction ran to an exit code"
ExtractResultOkWhenExited(h, rec, res) ==
    ReturnFrom(rec, withWarnings(
        Result(res.code # NULL,
               IF res.code = 0 THEN <<"Downloaded and extracted to " \o rec.targetDir>>
               ELSE formatInstallFailureMessage(h, res),
               TrimText(res.stdout), TrimText(res.stderr), res.code),
        rec.warnings))

ExtractResult(h, rec, res) ==
    ReturnFrom(rec, withWarnings(
        Result(res.code = 0,
               IF res.code = 0 THEN <<"Downloaded and extracted to " \o rec.targetDir>>
               ELSE formatInstallFailureMessage(h, res),
               TrimText(res.stdout), TrimText(res.stderr), res.code),
        rec.warnings))


\* Unpack without the hasBinary tests of lines 291 and 298
UnpackWithoutToolTest(c) ==
    /\ call[c].pc = "unpack"
    /\ CanStep(c)
    /\ LET me            == call[c]
           spec          == TheSpec(c)
           archiveType   == resolveArchiveType(spec, me.filename)
           shouldExtract == IF spec.extract # None THEN spec.extract = "true"
                            ELSE archiveType # None
       IN  call' = [call EXCEPT ![c] =
              IF ~shouldExtract
              THEN ReturnFrom(me, withWarnings(
                       Result(TRUE, <<"Downloaded to " \o me.archivePath>>,
                              <<"downloaded=" \o me.downloaded>>, <<>>, 0),
                       me.warnings))
              ELSE IF archiveType = None
              THEN ReturnFrom(me, withWarnings(
                       Result(FALSE,
                              <<"extract requested but archive type could not be detected">>,
                              <<>>, <<>>, NULL),
                       me.warnings))
              ELSE [me EXCEPT !.pc = "extract",
                              !.argv = extractArgv(archiveType, me.archivePath,
                                                   me.targetDir, spec.stripComponents)]]
    /\ UNCHANGED <<host, oracle>>

\* installDownloadSpec, lines 349-377, and extractArchive, lines 290-301
Unpack(c) ==
    /\ call[c].pc = "unpack"
    /\ CanStep(c)
    /\ LET h             == HostOf(c)
           me            == call[c]
           spec          == TheSpec(c)
           archiveType   == resolveArchiveType(spec, me.filename)
           shouldExtract == IF spec.extract # None THEN spec.extract = "true"
                            ELSE archiveType # None
           tool          == IF archiveType = "zip" THEN "unzip" ELSE "tar"
       IN  call' = [call EXCEPT ![c] =
              IF ~shouldExtract
              THEN ReturnFrom(me, withWarnings(
                       Result(TRUE, <<"Downloaded to " \o me.archivePath>>,
                              <<"downloaded=" \o me.downloaded>>, <<>>, 0),
                       me.warnings))
              ELSE IF archiveType = None
              THEN ReturnFrom(me, withWarnings(
                       Result(FALSE,
                              <<"extract requested but archive type could not be detected">>,
                              <<>>, <<>>, NULL),
                       me.warnings))
              ELSE IF ~hasBinary(h, tool)
              THEN ExtractResult(h, me, [stdout |-> <<>>,
                                         stderr |-> <<tool \o " not found on PATH">>,
                                         code |-> NULL])
              ELSE [me EXCEPT !.pc = "extract",
                              !.argv = extractArgv(archiveType, me.archivePath,
                                                   me.targetDir, spec.stripComponents)]]
    /\ UNCHANGED <<host, oracle>>

\* extractArchive, lines 295 and 305, then installDownloadSpec, lines 378-387
ExtractRun(c) ==
    /\ call[c].pc = "extract"
    /\ CanStep(c)
    /\ \E r \in Ask(c, PlainResponses) :
          LET me == Ran(c, "extract", None, call[c].argv, call[c].timeoutMs, r)
          IN  /\ Told(c, r)
              /\ call' = [call EXCEPT ![c] =
                    IF r.throws THEN [me EXCEPT !.pc = "threw"]
                    ELSE ExtractResult(HostOf(c), me,
                             [stdout |-> r.stdout, stderr |-> r.stderr, code |-> r.code])]
    /\ UNCHANGED host

---------------------------------------------------------------------------
(* Requests, manifests and hosts explored *)

NoStrip == [kind |-> "absent", tenths |-> 0]

BaseSpec ==
    [kind |-> "node", id |-> None, formula |-> None, package |-> None,
     module |-> None, bins |-> <<>>, url |-> None, archive |-> None,
     extract |-> None, stripComponents |-> NoStrip, targetDir |-> None]

NodeSpec == [BaseSpec EXCEPT !.kind = "node", !.package = "cowsay"]
BrewSpec == [BaseSpec EXCEPT !.kind = "brew", !.formula = "jq-tools"]
GoSpec   == [BaseSpec EXCEPT !.kind = "go", !.module = "example.com/tool@latest"]
UvSpec   == [BaseSpec EXCEPT !.kind = "uv", !.package = "ruff"]

BasePrefs == [nodeManager |-> "npm", preferBrew |-> TRUE]

EntryOf(requiresBins, anyBins, install) ==
    [name |-> "demo", requiresBins |-> requiresBins, anyBins |-> anyBins,
     install |-> install]

NoTimeout == [given |-> FALSE, ms |-> 0]
Timeouts == {NoTimeout, [given |-> TRUE, ms |-> 0], [given |-> TRUE, ms |-> 10000000]}

BoundaryTimeouts ==
    { [given |-> TRUE, ms |-> n] : n \in {-5, 999, 1000, 20000, 900000, 900001} }

Request(timeoutMs, installId, prefs, entry) ==
    [timeoutMs |-> timeoutMs, skillName |-> "demo", installId |-> installId,
     prefs |-> prefs, entries |-> <<entry>>]

HostWith(present, brewPath, platform, uid) ==
    [present |-> present, brewPath |-> brewPath, platform |-> platform, uid |-> uid,
     arch |-> "x64", brewBinFallback |-> None]

\* brew on the lookup path, brew found elsewhere, no brew
BrewSetups == { [path |-> {"brew"}, exe |-> None],
                [path |-> {}, exe |-> "/opt/homebrew/bin/brew"],
                [path |-> {}, exe |-> None] }

\* apt usable; then each of its three conditions failing alone
AptSetups == { [path |-> {"apt-get"}, platform |-> "linux", uid |-> 0],
               [path |-> {"apt-get"}, platform |-> "linux", uid |-> 1000],
               [path |-> {"apt-get"}, platform |-> "darwin", uid |-> 0],
               [path |-> {}, platform |-> "linux", uid |-> 0] }

BinNames == {"git", "uv", "jq"}
BinLists == UNION { [1..n -> BinNames] : n \in 0..MaxRequiredBins }
     \cup { <<" git ", "  ", "git">> }

\* The Prerequisite Resolver under every installer environment
ResolverScenarios ==
    { [inp  |-> Request(NoTimeout, "node-0", [BasePrefs EXCEPT !.preferBrew = pb],
                        EntryOf(bins, <<>>, <<NodeSpec>>)),
       host |-> HostWith(present \cup brew.path \cup apt.path, brew.exe,
                         apt.platform, apt.uid)] :
        bins \in BinLists, pb \in BOOLEAN, brew \in BrewSetups, apt \in AptSetups,
        present \in {{}, {"git"}, {"uv", "jq"}} }

\* Every kind of package spec, with and without its installer tool
KindScenarios ==
    { [inp  |-> Request(t, spec.kind \o "-0", [BasePrefs EXCEPT !.preferBrew = pb],
                        EntryOf(bins, <<>>, <<spec>>)),
       host |-> [HostWith(tools \cup brew.path \cup {"apt-get"}, brew.exe, "linux", 0)
                    EXCEPT !.arch = env.arch, !.brewBinFallback = env.fallback] ] :
        t \in Timeouts, spec \in {BrewSpec, GoSpec, UvSpec},
        pb \in BOOLEAN, bins \in {<<>>, <<"git">>}, brew \in BrewSetups,
        tools \in {{}, {"uv", "go"}},
        env \in { [arch |-> "x64", fallback |-> None],
                  [arch |-> "arm64", fallback |-> "GOBIN=/opt/homebrew/bin"] } }
    \cup
    { [inp  |-> Request(NoTimeout, "uv-0", BasePrefs,
                        EntryOf(bins, <<>>, <<[UvSpec EXCEPT !.bins = specBins]>>)),
       host |-> HostWith(tools \cup {"brew"}, None, "darwin", 501)] :
        bins \in {<<>>, <<"git">>, <<"jq">>}, tools \in SUBSET {"uv", "git"},
        specBins \in {<<"uv", " git ">>, <<"uv", "jq">>} }

\* The any-of set
AnyScenarios ==
    { [inp  |-> Request(NoTimeout, "node-0", BasePrefs,
                        EntryOf(bins, anyBins, <<NodeSpec>>)),
       host |-> HostWith(present \cup {"brew", "apt-get"}, None, "linux", 0)] :
        bins \in {<<>>, <<"git">>, <<"jq">>},
        anyBins \in {<<"a", "b">>, <<"b", "  ", "b">>, <<"git", "a">>},
        present \in SUBSET {"a", "b"} }

\* Absent skill, unknown install id, malformed and unsupported specs, the
\* node managers, a manifest with several specs
MiscScenarios ==
    { [inp  |-> [Request(t, id, [BasePrefs EXCEPT !.nodeManager = nm],
                         EntryOf(<<"git">>, <<>>, install))
                    EXCEPT !.skillName = name],
       host |-> HostWith({"git", "brew"}, None, "linux", 0)] :
        t \in Timeouts \cup BoundaryTimeouts, name \in {"demo", "ghost"},
        id \in {"node-0", "brew-1", "tool", "pip-3", "nope"},
        nm \in {"npm", "pnpm", "yarn", "bun"},
        install \in { <<NodeSpec, [BrewSpec EXCEPT !.formula = ""],
                        [GoSpec EXCEPT !.id = "tool", !.module = None],
                        [BaseSpec EXCEPT !.kind = "pip"]>>,
                      <<[NodeSpec EXCEPT !.package = None],
                        [UvSpec EXCEPT !.id = " brew-1", !.package = None],
                        [BrewSpec EXCEPT !.id = "tool"]>> } }

\* Download specs: every URL shape, archive override and extract flag; then
\* stripComponents, the extraction tools and the timeouts
DownloadSpec(url, archive, extract, strip) ==
    [BaseSpec EXCEPT !.kind = "download", !.url = url, !.archive = archive,
                     !.extract = extract, !.stripComponents = strip]

DownloadScenarios ==
    { [inp  |-> Request(NoTimeout, "download-0", BasePrefs,
                        EntryOf(<<"jq">>, <<"a">>,
                                <<DownloadSpec(url, archive, extract, NoStrip)>>)),
       host |-> HostWith({"unzip", "tar"}, None, "linux", 0)] :
        url \in {None, "   ", "https://h/tool.tar.gz", " https://h/a.tgz ",
                 "https://h/Tool.ZIP", "https://h/tool.bin", "https://h/x.tar.bz2",
                 "https://h/", "not a url/y.tbz2"},
        archive \in {None, " ZIP ", "7z", "  "},
        extract \in {None, "true", "false"} }
    \cup
    { [inp  |-> Request(t, "download-0", BasePrefs,
                        EntryOf(<<>>, <<>>, <<DownloadSpec(url, None, None, strip)>>)),
       host |-> HostWith(tools, None, "linux", 0)] :
        t \in Timeouts, url \in {"https://h/tool.tar.gz", "https://h/Tool.ZIP"},
        strip \in {NoStrip, [kind |-> "number", tenths |-> 25],
                   [kind |-> "number", tenths |-> -15], [kind |-> "nan", tenths |-> 0]},
        tools \in {{"unzip", "tar"}, {}} }

\* Manifests whose specs share a resolved id, by explicit id or by default;
\* a blank id; an empty manifest; a node manager outside the table
IdScenarios ==
    { [inp  |-> Request(NoTimeout, id, [BasePrefs EXCEPT !.nodeManager = "deno"],
                        EntryOf(<<>>, <<>>, install)),
       host |-> HostWith({"brew", "uv", "go"}, None, "linux", 0)] :
        id \in {"node-0", "dup", "go-3", "uv-2", " node-0 ", "", "node-1"},
        install \in { <<NodeSpec, [BrewSpec EXCEPT !.id = " node-0 "],
                        [UvSpec EXCEPT !.id = "dup"], [GoSpec EXCEPT !.id = "dup"]>>,
                      <<[GoSpec EXCEPT !.id = "  "], NodeSpec, [UvSpec EXCEPT !.id = ""]>>,
                      <<>> } }

Scenarios ==
    ResolverScenarios \cup KindScenarios \cup AnyScenarios \cup MiscScenarios
        \cup DownloadScenarios \cup IdScenarios

Call0(inp, h, o, pc) ==
    [inp |-> inp, host |-> h, oracle |-> o, pc |-> pc, asked |-> 0,
     timeoutMs |-> 0, entry |-> 0, spec |-> 0, warnings |-> <<>>, argv |-> <<>>,
     brewExe |-> None, required |-> <<>>, missing |-> <<>>, anyBins |-> <<>>,
     pathSeen |-> {},
     binIdx |-> 0, attempts |-> <<>>, attIdx |-> 0, attempted |-> <<>>,
     stdoutParts |-> <<>>, stderrParts |-> <<>>,
     prereq |-> [status |-> "none", message |-> <<>>, stdout |-> <<>>, stderr |-> <<>>],
     tool |-> None, env |-> None, url |-> "", filename |-> "", targetDir |-> "",
     archivePath |-> "", downloaded |-> "0", result |-> EmptyResult,
     launched |-> <<>>, scans |-> 0, scanned |-> NotScanned, fetches |-> <<>>, releases |-> 0]

---------------------------------------------------------------------------
(* Specifications *)

\* One installSkill call
Init ==
    \E s \in Scenarios :
       /\ call = [c \in Calls |->
                    Call0(s.inp, c, c, IF c = 1 THEN "start" ELSE "idle")]
       /\ host = [h \in Calls |-> s.host]
       /\ oracle = [o \in Calls |-> <<>>]

Step(c) ==
    \/ LoadSkill(c)
    \/ Scan(c)
    \/ Dispatch(c)
    \/ BuildCommand(c)
    \/ ResolveBrew(c)
    \/ EnsurePrereq(c)
    \/ TryInstall(c)
    \/ RunAttempt(c)
    \/ RerunLast(c)
    \/ Recheck(c)
    \/ Bootstrap(c)
    \/ BootRun(c)
    \/ ResolveEnv(c)
    \/ PrefixRun(c)
    \/ FinalRun(c)
    \/ DownloadStart(c)
    \/ EnsureTargetDir(c)
    \/ Fetch(c)
    \/ SaveBody(c)
    \/ Unpack(c)
    \/ ExtractRun(c)

Next == \E c \in Calls : Step(c)

Spec == Init /\ [][Next]_vars

\* A cross-section of the scenarios: each family, in one installer environment
SmallScenarios ==
    { s \in ResolverScenarios :
        /\ s.inp.prefs.preferBrew
        /\ s.host.platform = "linux" /\ s.host.uid = 0
        /\ {"brew", "apt-get"} \subseteq s.host.present
        /\ s.host.present \cap BinNames = {} }
    \cup
    { s \in KindScenarios :
        /\ s.inp.timeoutMs = NoTimeout /\ s.inp.prefs.preferBrew
        /\ s.inp.entries[1].requiresBins = <<"git">>
        /\ s.host.present \cap {"uv", "go"} = {}
        /\ s.host.arch = "x64" /\ s.host.platform = "linux" }
    \cup
    { s \in AnyScenarios :
        s.inp.entries[1].requiresBins = <<"git">> /\ s.host.present \cap {"a", "b"} = {} }
    \cup
    { s \in MiscScenarios :
        s.inp.timeoutMs = NoTimeout /\ s.inp.prefs.nodeManager = "npm" }
    \cup
    { s \in DownloadScenarios :
        /\ s.inp.timeoutMs = NoTimeout
        /\ s.inp.entries[1].install[1].archive = None
        /\ s.inp.entries[1].install[1].extract = None
        /\ s.inp.entries[1].install[1].stripComponents = NoStrip
        /\ "tar" \in s.host.present }

\* One installSkill call, under the assumption that every collaborator call
\* eventually returns or throws
FairInit ==
    \E s \in SmallScenarios :
       /\ call = [c \in Calls |->
                    Call0(s.inp, c, c, IF c = 1 THEN "start" ELSE "idle")]
       /\ host = [h \in Calls |-> s.host]
       /\ oracle = [o \in Calls |-> <<>>]

FairSpec == FairInit /\ [][Next]_vars /\ WF_vars(Next)

\* Two runs of the same request on two identical hosts, given the same
\* collaborator responses; the scanner answers each run as it pleases
TwinInit ==
    \E s \in SmallScenarios :
       /\ call = [c \in Calls |-> Call0(s.inp, c, 1, "start")]
       /\ host = [h \in Calls |-> s.host]
       /\ oracle = [o \in Calls |-> <<>>]

TwinSpec == TwinInit /\ [][Next]_vars

\* Two concurrent installSkill calls for the same skill and install id on one
\* host, each with its own collaborator responses
RaceScenarios ==
    { s \in ResolverScenarios :
        /\ ~s.inp.prefs.preferBrew
        /\ s.inp.entries[1].requiresBins = <<"git">>
        /\ s.host.present = {"apt-get"} /\ s.host.brewPath = None
        /\ s.host.platform = "linux" /\ s.host.uid = 0 }
    \cup
    { s \in KindScenarios :
        /\ s.inp.timeoutMs = NoTimeout /\ ~s.inp.prefs.preferBrew
        /\ s.inp.entries[1].install[1].kind = "go"
        /\ s.inp.entries[1].requiresBins = <<>>
        /\ s.host.present = {"brew", "apt-get"}
        /\ s.host.arch = "x64" }
    \cup
    { s \in DownloadScenarios :
        /\ s.inp.timeoutMs = NoTimeout
        /\ s.inp.entries[1].install[1].url = "https://h/Tool.ZIP"
        /\ s.inp.entries[1].install[1].archive = None
        /\ s.inp.entries[1].install[1].extract = None
        /\ s.inp.entries[1].install[1].stripComponents = NoStrip
        /\ "tar" \in s.host.present }

RaceInit ==
    \E s \in RaceScenarios :
       /\ call = [c \in Calls |-> Call0(s.inp, 1, c, "start")]
       /\ host = [h \in Calls |-> s.host]
       /\ oracle = [o \in Calls |-> <<>>]

RaceSpec == RaceInit /\ [][Next]_vars

\* The failure formatter alone: results of failed subprocesses, on hosts of
\* every architecture and operating system
MaxStderrLines == 2

OutputLines ==
    {"note: resolving", "Error: architecture mismatch, required: arm64",
     "this formula requires macOS", "Linux is required", "npm ERR! code E404"}

FailedRuns ==
    { [code |-> code, stdout |-> out, stderr |-> err] :
        code \in {NULL, 1, 127},
        out \in {<<>>} \cup {<<l>> : l \in OutputLines},
        err \in UNION { [1..n -> OutputLines] : n \in 0..MaxStderrLines } }

FormatInit ==
    \E arch \in {"x64", "arm64"}, platform \in {"linux", "darwin", "win32"} :
       /\ call = [c \in Calls |->
                    Call0(Request(NoTimeout, "node-0", BasePrefs,
                                  EntryOf(<<>>, <<>>, <<NodeSpec>>)),
                          c, c, IF c = 1 THEN "format" ELSE "idle")]
       /\ host = [h \in Calls |->
                    [HostWith({}, None, platform, 0) EXCEPT !.arch = arch]]
       /\ oracle = [o \in Calls |-> <<>>]

\* formatInstallFailureMessage applied to a failed run
FormatFailure(c) ==
    /\ call[c].pc = "format"
    /\ \E run \in FailedRuns :
          call' = [call EXCEPT ![c] =
                     ReturnFrom(@, Result(FALSE,
                         formatInstallFailureMessage(HostOf(c), run),
                         run.stdout, run.stderr, run.code))]
    /\ UNCHANGED <<host, oracle>>

FormatNext == \E c \in Calls : FormatFailure(c)

FormatSpec == FormatInit /\ [][FormatNext]_vars

---------------------------------------------------------------------------
(* TtsSanitizer: the text handed to the speech output *)

\* Longest text explored, in atoms
MaxTextLen == 4

NL == "\n"

\* the backtick character, named: the character itself ends a string of
\* this notation
Backtick == "BACKTICK"

NOISE_LINES == {"NO_REPLY", "HEARTBEAT_OK", "[read-sync]", "[[read_ack]]"}

\* A text is a sequence of atoms, each standing for its characters: the four
\* noise tokens, a word, a space, a line break, the strikethrough marker and
\* a backtick.  The patterns of sanitize that are not modelled below need a
\* character no atom has (<, *, #, !, (, >, a digit, a colon, "http", a list
\* marker at the start of a line, "[[tts:", "[[reply_to").
TextAtoms == NOISE_LINES \cup {"hi", " ", NL, "~~", Backtick}

Texts == UNION { [1..n -> TextAtoms] : n \in 0..MaxTextLen }

Least(S) == CHOOSE x \in S : \A y \in S : x <= y

From(s, i) == SubSeq(s, i, Len(s))

\* three backticks at position i
Fence(s, i) == i + 2 <= Len(s) /\ s[i] = Backtick /\ s[i + 1] = Backtick /\ s[i + 2] = Backtick

\* FENCED_CODE_BLOCK.replace(result, ""): from a fence to the nearest fence
\* after it
RECURSIVE FENCED_CODE_BLOCK(_)
FENCED_CODE_BLOCK(s) ==
    IF s = <<>> THEN <<>>
    ELSE LET closing == {j \in 4..Len(s) : Fence(s, j)}
         IN  IF Fence(s, 1) /\ closing # {}
             THEN FENCED_CODE_BLOCK(From(s, Least(closing) + 3))
             ELSE <<Head(s)>> \o FENCED_CODE_BLOCK(Tail(s))

\* INLINE_CODE.replace(result, ""): a backtick, one character or more that
\* is no backtick, a backtick
RECURSIVE INLINE_CODE(_)
INLINE_CODE(s) ==
    IF s = <<>> THEN <<>>
    ELSE LET closing == {j \in 3..Len(s) : s[j] = Backtick}
         IN  IF s[1] = Backtick /\ Len(s) >= 3 /\ s[2] # Backtick /\ closing # {}
             THEN INLINE_CODE(From(s, Least(closing) + 1))
             ELSE <<Head(s)>> \o INLINE_CODE(Tail(s))

\* String.lines(): the pieces between the line breaks
RECURSIVE lines(_)
lines(s) ==
    LET breaks == {i \in DOMAIN s : s[i] = NL}
    IN  IF breaks = {} THEN <<s>>
        ELSE <<SubSeq(s, 1, Least(breaks) - 1)>> \o lines(From(s, Least(breaks) + 1))

\* joinToString("\n")
RECURSIVE joinToString(_)
joinToString(ls) ==
    IF ls = <<>> THEN <<>>
    ELSE IF Len(ls) = 1 THEN ls[1]
    ELSE ls[1] \o <<NL>> \o joinToString(Tail(ls))

Whitespace == {" ", NL}

RECURSIVE trimStart(_)
trimStart(s) ==
    IF s # <<>> /\ Head(s) \in Whitespace THEN trimStart(Tail(s)) ELSE s

RECURSIVE trimEnd(_)
trimEnd(s) ==
    IF s # <<>> /\ s[Len(s)] \in Whitespace THEN trimEnd(SubSeq(s, 1, Len(s) - 1)) ELSE s

\* String.trim()
trim(s) == trimEnd(trimStart(s))

\* trimmed !in NOISE_LINES, negated: the trimmed line is one of the tokens
IsNoiseLine(line) == \E t \in NOISE_LINES : trim(line) = <<t>>

\* result.lines().filter { ... }.joinToString("\n")
removeNoiseLines(s) ==
    joinToString(SelectSeq(lines(s), LAMBDA line : ~IsNoiseLine(line)))

\* MARKDOWN_STRIKETHROUGH.replace(result, "$1"): the text between two
\* markers is kept, the markers go
RECURSIVE MARKDOWN_STRIKETHROUGH(_)
MARKDOWN_STRIKETHROUGH(s) ==
    IF s = <<>> THEN <<>>
    ELSE LET closing == {j \in 3..Len(s) : s[j] = "~~"}
         IN  IF s[1] = "~~" /\ Len(s) >= 3 /\ s[2] # "~~" /\ closing # {}
             THEN SubSeq(s, 2, Least(closing) - 1)
                    \o MARKDOWN_STRIKETHROUGH(From(s, Least(closing) + 1))
             ELSE <<Head(s)>> \o MARKDOWN_STRIKETHROUGH(Tail(s))

\* the number of atoms a at the head of s
RECURSIVE RunOf(_, _)
RunOf(s, a) == IF s = <<>> \/ Head(s) # a THEN 0 ELSE 1 + RunOf(Tail(s), a)

\* a run of at least least atoms a becomes keep of them
RECURSIVE Squeeze(_, _, _, _)
Squeeze(s, a, least, keep) ==
    IF s = <<>> THEN <<>>
    ELSE LET n == RunOf(s, a)
         IN  IF n >= least
             THEN [i \in 1..keep |-> a] \o Squeeze(From(s, n + 1), a, least, keep)
             ELSE <<Head(s)>> \o Squeeze(Tail(s), a, least, keep)

\* MULTIPLE_NEWLINES.replace(result, "\n\n")
MULTIPLE_NEWLINES(s) == Squeeze(s, NL, 3, 2)

\* MULTIPLE_SPACES.replace(result, " ")
MULTIPLE_SPACES(s) == Squeeze(s, " ", 2, 1)

\* TtsSanitizer.sanitize
sanitize(text) ==
    LET coded   == INLINE_CODE(FENCED_CODE_BLOCK(text))
        quiet   == removeNoiseLines(coded)
        plain   == MARKDOWN_STRIKETHROUGH(quiet)
        spaced  == MULTIPLE_SPACES(MULTIPLE_NEWLINES(plain))
    IN  trim(spaced)

TtsInit ==
    \E text \in Texts :
       /\ call = [c \in Calls |->
                    Call0(text, c, c, IF c = 1 THEN "sanitize" ELSE "idle")]
       /\ host = [h \in Calls |-> HostWith({}, None, "linux", 0)]
       /\ oracle = [o \in Calls |-> <<>>]

\* sanitize applied to a text
Sanitize(c) ==
    /\ call[c].pc = "sanitize"
    /\ call' = [call EXCEPT ![c].pc = "spoken", ![c].result = sanitize(call[c].inp)]
    /\ UNCHANGED <<host, oracle>>

TtsNext == \E c \in Calls : Sanitize(c)

TtsSpec == TtsInit /\ [][TtsNext]_vars

---------------------------------------------------------------------------
(* Properties *)

Keys == DOMAIN BIN_INSTALL_ALLOWLIST

\* the launches of call c in a phase
LaunchesIn(c, phase) ==
    {i \in DOMAIN call[c].launched : call[c].launched[i].phase = phase}

\* the commands the table allows for a binary
AllowedArgvs(c, bin) ==
    LET e == BIN_INSTALL_ALLOWLIST[bin]
    IN  {<<call[c].brewExe, "install", f>> : f \in Range(e.brew)}
          \cup {<<"apt-get", "install", "-y">> \o e.apt}
          \cup {buildNodeInstallCommand(p, call[c].inp.prefs) : p \in Range(e.node)}
          \cup {<<"go", "install", m>> : m \in Range(e.go)}

\* the required binaries of call c: manifest requires.bins united with the
\* spec-level bins
RequiredSet(c) ==
    {TrimStr(b) : b \in Range(Entry(c).requiresBins) \cup Range(TheSpec(c).bins)} \ {""}

Resolving(c) == call[c].prereq.status # "none" \/ call[c].pc \in {"try", "attempt", "rerun", "recheck"}

\* C1: the allow-list is closed.  Every subprocess the Prerequisite Resolver
\* launches is for a key of BIN_INSTALL_ALLOWLIST and is one of the commands
\* built from that key's entry; a missing binary that is no key gets a failed
\* attempt and no subprocess.
C1_AllowListClosed ==
    \A c \in Calls :
       /\ \A i \in LaunchesIn(c, "prereq") :
             LET l == call[c].launched[i]
             IN  l.bin \in Keys /\ l.argv \in AllowedArgvs(c, l.bin)
       /\ \A j \in DOMAIN call[c].attempted :
             LET a == call[c].attempted[j]
             IN  a.bin \notin Keys =>
                   /\ ~a.ok
                   /\ \A i \in LaunchesIn(c, "prereq") : call[c].launched[i].bin # a.bin

\* A call that installed an allow-listed binary and then met an unlisted one
C1_Witness ==
    \E c \in Calls :
       /\ LaunchesIn(c, "prereq") # {}
       /\ \E j \in DOMAIN call[c].attempted : call[c].attempted[j].bin \notin Keys

UnlistedMissing(c) == {i \in DOMAIN call[c].missing : call[c].missing[i] \notin Keys}

FirstUnlisted(c) == CHOOSE i \in UnlistedMissing(c) : \A j \in UnlistedMissing(c) : i <= j

\* C2 as stated: whenever a missing required binary is unlisted, resolution
\* invokes no subprocess at all and does not return ok.
C2_NoSubprocessAtAll ==
    \A c \in Calls :
       UnlistedMissing(c) # {} =>
          /\ LaunchesIn(c, "prereq") = {}
          /\ call[c].prereq.status # "ok"

\* C2 amended: whenever a missing required binary is unlisted, resolution
\* never returns ok, and every subprocess it invokes is for an allow-listed
\* binary declared before the first unlisted one (none at all when the
\* unlisted binary is the first missing one); once resolution got to the
\* unlisted binary it has failed.
C2_NoSubprocessFromUnlistedOn ==
    \A c \in Calls :
       UnlistedMissing(c) # {} =>
          /\ call[c].prereq.status # "ok"
          /\ call[c].pc \notin {"recheck", "bootstrap", "bootrun", "env", "prefix", "final"}
          /\ \A i \in LaunchesIn(c, "prereq") :
                \E k \in 1..(FirstUnlisted(c) - 1) :
                   call[c].launched[i].bin = call[c].missing[k]
          /\ (\E j \in DOMAIN call[c].attempted : call[c].attempted[j].bin \notin Keys)
                => call[c].prereq.status = "failed" /\ call[c].pc = "done"
                     /\ ~call[c].result.ok

\* Resolution failed at an unlisted binary declared first, with an
\* allow-listed binary missing behind it
C2_Witness ==
    \E c \in Calls :
       /\ call[c].prereq.status = "failed"
       /\ Len(call[c].missing) > 1
       /\ FirstUnlisted(c) = 1
       /\ call[c].missing[2] \in Keys
       /\ call[c].launched = <<>>

NeedOneOf(c) ==
    /\ Resolving(c)
    /\ Len(call[c].anyBins) > 0
    /\ Range(call[c].anyBins) \cap call[c].pathSeen = {}

\* C3: when anyBins is non-empty and none of them is discoverable, resolution
\* fails with "need one of [...]" before any install attempt: no subprocess
\* is launched and the call is over, its result not ok.
C3_AnyBinsFailFirst ==
    \A c \in Calls :
       NeedOneOf(c) =>
          /\ call[c].launched = <<>>
          /\ call[c].attempted = <<>>
          /\ call[c].prereq.status = "failed"
          /\ call[c].prereq.message = <<"Missing prerequisite: need one of">> \o call[c].anyBins
          /\ call[c].pc = "done"
          /\ ~call[c].result.ok
          /\ call[c].result.message = call[c].prereq.message

\* None of the any-of set is there, and an allow-listed required binary is
\* missing too
C3_Witness ==
    \E c \in Calls :
       /\ NeedOneOf(c)
       /\ \E i \in DOMAIN call[c].missing : call[c].missing[i] \in Keys

\* C4: no install subprocess is launched for a required binary that was
\* discoverable when resolution started; and when every required binary was
\* discoverable and the any-of condition met, resolution returns ok with
\* empty output and no subprocess.
C4_NoInstallForPresent ==
    \A c \in Calls :
       Resolving(c) =>
          /\ \A i \in LaunchesIn(c, "prereq") :
                call[c].launched[i].bin \notin call[c].pathSeen
          /\ ( /\ RequiredSet(c) \subseteq call[c].pathSeen
               /\ (Len(call[c].anyBins) > 0 => Range(call[c].anyBins) \cap call[c].pathSeen # {}) )
             => /\ call[c].prereq.status = "ok"
                /\ call[c].prereq.stdout = <<>>
                /\ call[c].prereq.stderr = <<>>
                /\ LaunchesIn(c, "prereq") = {}

\* One required binary was there, another was installed
C4_Witness ==
    \E c \in Calls :
       /\ call[c].prereq.status = "ok"
       /\ RequiredSet(c) \cap call[c].pathSeen # {}
       /\ LaunchesIn(c, "prereq") # {}

AllAttemptsOk(c) ==
    /\ Len(call[c].attempted) = Len(call[c].missing)
    /\ \A j \in DOMAIN call[c].attempted : call[c].attempted[j].ok

\* C5: resolution returns ok only if every required binary is discoverable;
\* when every installer run reported success and a binary is still missing,
\* the call fails with "still missing after auto-install" naming exactly the
\* binaries that are still missing.
C5_RecheckAfterInstall ==
    \A c \in Calls :
       LET h     == HostOf(c)
           still == SelectSeq(call[c].missing, LAMBDA b : b \notin host[h].present)
       IN  /\ call[c].prereq.status = "ok" => RequiredSet(c) \subseteq host[h].present
           /\ (call[c].prereq.status # "none" /\ AllAttemptsOk(c) /\ still # <<>>) =>
                 /\ call[c].prereq.status = "failed"
                 /\ call[c].prereq.message =
                       <<"Prerequisites still missing after auto-install">> \o still
                 /\ call[c].pc = "done"
                 /\ ~call[c].result.ok

\* Two binaries installed with exit 0, one of them not there afterwards
C5_Witness ==
    \E c \in Calls :
       /\ call[c].prereq.status = "failed"
       /\ Len(call[c].missing) = 2
       /\ AllAttemptsOk(c)
       /\ Len(call[c].prereq.message) = 2

\* C6 as stated: within one call no command is run twice.  The launches of a
\* call differ pairwise in phase, binary or command.
C6_NothingRunTwice ==
    \A c \in Calls :
       \A i, j \in DOMAIN call[c].launched :
          LET a == call[c].launched[i]
              b == call[c].launched[j]
          IN  (a.phase = b.phase /\ a.bin = b.bin /\ a.argv = b.argv) => i = j

TimeoutOf(t) == IF t.given THEN t.ms ELSE 300000

\* C7: the effective timeout is min(max(t, 1000), 900000), t the requested
\* timeoutMs or 300000: it lies in [1000, 900000], 0 gives 1000 and 10000000
\* gives 900000.
C7_TimeoutClamped ==
    \A c \in Calls :
       call[c].pc \notin {"idle", "start"} =>
          LET t == TimeoutOf(call[c].inp.timeoutMs)
              e == call[c].timeoutMs
          IN  /\ e >= 1000 /\ e <= 900000
              /\ (t < 1000 => e = 1000)
              /\ (t > 900000 => e = 900000)
              /\ (t >= 1000 /\ t <= 900000 => e = t)
              /\ (t = 0 => e = 1000)
              /\ (t = 10000000 => e = 900000)

\* A request of timeoutMs = 0, clamped to 1000
C7_Witness ==
    \E c \in Calls :
       /\ call[c].pc \notin {"idle", "start"}
       /\ call[c].inp.timeoutMs.given
       /\ call[c].inp.timeoutMs.ms = 0
       /\ call[c].timeoutMs = 1000

TimedOut(l) == l.code = NULL /\ ~l.threw

\* C8 as stated: if any subprocess of a call timed out, the result is not ok.
C8_AnyTimeoutFails ==
    \A c \in Calls :
       (call[c].pc = "done" /\ \E i \in DOMAIN call[c].launched : TimedOut(call[c].launched[i]))
          => ~call[c].result.ok

\* the last candidate of the chain of a missing binary
LastCandidate(c, bin) ==
    LET a == BuildAttempts(HostOf(c), allowOf(bin).entry, call[c].inp.prefs, call[c].brewExe)
    IN  a[Len(a)].argv

\* a launch whose outcome decides the call: the final command, the bootstrap,
\* the extraction, and the last candidate of a binary's chain
Decisive(c, l) ==
    \/ l.phase \in {"final", "bootstrap", "extract"}
    \/ l.phase = "prereq" /\ l.argv = LastCandidate(c, l.bin)

\* C8 amended: if the final command, the uv/go bootstrap, the extraction or
\* the last candidate of a missing binary's chain timed out, the result is
\* not ok and carries no exit code: the code field of the result is null.
\* A timed-out earlier candidate is a failed attempt, after which the
\* next candidate runs; a timed-out brew --prefix probe falls back to the
\* defaults.
C8_DecisiveTimeoutFails ==
    \A c \in Calls :
       (call[c].pc = "done" /\ \E i \in DOMAIN call[c].launched :
            TimedOut(call[c].launched[i]) /\ Decisive(c, call[c].launched[i]))
          => ~call[c].result.ok /\ call[c].result.code = NULL

\* The bootstrap timed out and the call returned
C8_Witness ==
    \E c \in Calls :
       /\ call[c].pc = "done"
       /\ \E i \in LaunchesIn(c, "bootstrap") : TimedOut(call[c].launched[i])

CandidateCount(bin) ==
    IF bin \notin Keys THEN 0
    ELSE LET e == BIN_INSTALL_ALLOWLIST[bin]
         IN  Len(e.brew) + (IF Len(e.apt) > 0 THEN 1 ELSE 0) + Len(e.node) + Len(e.go)

RECURSIVE CandidateBudget(_)
CandidateBudget(bins) ==
    IF bins = <<>> THEN 0 ELSE CandidateCount(Head(bins)) + CandidateBudget(Tail(bins))

AllFinished == \A c \in Calls : Finished(c)

\* C9: a call never hangs.  When every collaborator call returns or throws,
\* the call eventually returns or throws, and the subprocesses it has launched
\* never number more than the allow-list candidates of its missing required
\* binaries plus three (the bootstrap, the brew --prefix probe and the final
\* command; or the re-run of a failed chain's last candidate; or the
\* extraction).
C9_Terminates ==
    /\ <>AllFinished
    /\ [](\A c \in Calls :
             Len(call[c].launched) <= CandidateBudget(call[c].missing) + 3)

\* A call that used up its budget: every candidate of its missing binary,
\* then the bootstrap, the probe and the final command
C9_Witness ==
    \E c \in Calls :
       /\ call[c].pc = "done"
       /\ Len(call[c].missing) > 0
       /\ Len(call[c].launched) = CandidateBudget(call[c].missing) + 3

Comparable(r) == [ok |-> r.ok, message |-> r.message, stdout |-> r.stdout,
                  stderr |-> r.stderr, code |-> r.code]

\* C10: scan findings never change the outcome.  Two runs that differ only in
\* what the scanner answered end the same way (returned or threw) after the
\* same fetches and subprocesses, with results equal in ok, message, stdout,
\* stderr and code; the warnings field is there exactly when the scan gave
\* warnings.
C10_ScanNeverChangesOutcome ==
    /\ \A c \in Calls :
          call[c].pc = "done" =>
             /\ call[c].result.hasWarnings = (call[c].warnings # <<>>)
             /\ call[c].result.warnings = call[c].warnings
    /\ (Finished(1) /\ Finished(2)) =>
          /\ call[1].pc = call[2].pc
          /\ call[1].launched = call[2].launched
          /\ call[1].fetches = call[2].fetches
          /\ Comparable(call[1].result) = Comparable(call[2].result)

\* Two installs that succeeded after running subprocesses, one with
\* warnings and one without
C10_Witness ==
    /\ call[1].pc = "done" /\ call[2].pc = "done"
    /\ call[1].result.ok /\ call[2].result.ok
    /\ call[1].launched # <<>>
    /\ call[1].result.hasWarnings /\ ~call[2].result.hasWarnings

\* the positions a call is in before the scan has answered
BeforeScan == {"idle", "start", "scan"}

\* C11: a scanner that throws does not stop the call, which goes on to spec
\* lookup and dispatch with exactly one warning, naming the skill; every
\* result carries at most one warning: the critical one when there are
\* critical findings, else the warn-level one when there are warn findings,
\* none after a clean scan.
C11_OneWarningAtMost ==
    \A c \in Calls :
       LET r == call[c].result
           o == call[c].scanned
           w == call[c].warnings
       IN  /\ call[c].scans > 0 =>
                /\ call[c].pc \notin BeforeScan
                /\ Len(w) <= 1
                /\ o.throws =>
                      w = << <<"code safety scan failed", Entry(c).name>> >>
                /\ (~o.throws /\ o.critical > 0) =>
                      /\ Len(w) = 1
                      /\ w[1][1] = "WARNING: dangerous code patterns"
                      /\ w[1][2] = Entry(c).name
                /\ (~o.throws /\ o.critical = 0 /\ o.warn > 0) =>
                      /\ Len(w) = 1
                      /\ w[1][1] = "suspicious code pattern(s)"
                /\ (~o.throws /\ o.critical = 0 /\ o.warn = 0) => w = <<>>
           /\ call[c].pc = "done" =>
                /\ r.warnings = w
                /\ r.hasWarnings = (Len(w) = 1)
           /\ call[c].pc = "threw" => call[c].scans > 0

\* The scanner threw, and the call went on to run its final command and
\* returned ok with the one warning
C11_Witness ==
    \E c \in Calls :
       /\ call[c].pc = "done"
       /\ call[c].scanned.throws
       /\ call[c].result.ok
       /\ LaunchesIn(c, "final") # {}
       /\ Len(call[c].result.warnings) = 1


\* C12: a call whose skill is found scans exactly once, whatever the install
\* id, the kind of spec or the outcome, and the scan has answered before the
\* first fetch or subprocess of the call.
C12_ScanOnceBeforeAnything ==
    \A c \in Calls :
       /\ call[c].scans <= 1
       /\ (call[c].entry # 0 /\ call[c].pc \notin BeforeScan) => call[c].scans = 1
       /\ call[c].pc \in BeforeScan =>
             call[c].scans = 0 /\ call[c].launched = <<>> /\ call[c].fetches = <<>>
       /\ (call[c].launched # <<>> \/ call[c].fetches # <<>>) => call[c].scans = 1

\* A call that scanned once and then ran prerequisite installs and its final
\* command
C12_Witness ==
    \E c \in Calls :
       /\ call[c].pc = "done"
       /\ call[c].scans = 1
       /\ LaunchesIn(c, "prereq") # {}
       /\ LaunchesIn(c, "final") # {}


\* the field a kind of spec cannot do without (None: the kind has no command)
MandatoryField(spec) ==
    CASE spec.kind = "brew" -> spec.formula
      [] spec.kind \in {"node", "uv"} -> spec.package
      [] spec.kind = "go" -> spec.module
      [] OTHER -> None

\* the command of a well-formed spec
ExpectedArgv(spec, prefs) ==
    CASE spec.kind = "brew" -> <<"brew", "install", spec.formula>>
      [] spec.kind = "go"   -> <<"go", "install", spec.module>>
      [] spec.kind = "uv"   -> <<"uv", "tool", "install", spec.package>>
      [] spec.kind = "node" /\ prefs.nodeManager = "pnpm" -> <<"pnpm", "add", "-g", spec.package>>
      [] spec.kind = "node" /\ prefs.nodeManager = "yarn" -> <<"yarn", "global", "add", spec.package>>
      [] spec.kind = "node" /\ prefs.nodeManager = "bun"  -> <<"bun", "add", "-g", spec.package>>
      [] OTHER -> <<"npm", "install", "-g", spec.package>>

\* the calls that are past the Strategy Resolver
PastBuild(c) ==
    /\ call[c].spec # 0
    /\ TheSpec(c).kind # "download"
    /\ call[c].pc \notin BeforeScan \cup {"dispatch", "build"}

\* C13: buildInstallCommand gives an error and no argv, or a whole argv and
\* no error.  A spec without its mandatory field, a download spec and a spec
\* of unknown kind give an error; the others give brew install F, go install
\* M, uv tool install P or the node manager's vector (npm by default).  It
\* changes nothing: the step that applies it launches nothing and leaves the
\* host alone.
C13_CommandOrError ==
    /\ [](\A c \in Calls :
            (call[c].entry # 0 /\ call[c].spec # 0) =>
               LET spec    == TheSpec(c)
                   prefs   == call[c].inp.prefs
                   command == buildInstallCommand(spec, prefs)
               IN  /\ (command.argv = <<>>) # (command.error = None)
                   /\ Falsy(MandatoryField(spec)) =>
                         command.argv = <<>> /\ command.error # None
                   /\ ~Falsy(MandatoryField(spec)) =>
                         command.argv = ExpectedArgv(spec, prefs)
                   /\ (PastBuild(c) /\ command.error # None) =>
                         /\ call[c].pc = "done"
                         /\ call[c].result.message = <<command.error>>
                         /\ call[c].argv = <<>>
                   /\ (PastBuild(c) /\ command.error = None) =>
                         Tail(call[c].argv) = Tail(command.argv))
    /\ [][\A c \in Calls :
            call[c].pc = "build" =>
               /\ host' = host /\ oracle' = oracle
               /\ call'[c].launched = call[c].launched
               /\ call'[c].fetches = call[c].fetches]_vars

\* A go spec without module was given to the resolver, and the call ended
\* with its error
C13_Witness ==
    \E c \in Calls :
       /\ call[c].pc = "done"
       /\ call[c].spec # 0
       /\ TheSpec(c).kind = "go" /\ TheSpec(c).module = None
       /\ call[c].result.message = <<"missing go module">>


\* the resolved id of the spec at position i (index i - 1): its explicit id
\* trimmed, or kind-index
ResolvedId(specs, i) ==
    IF specs[i].id # None THEN TrimStr(specs[i].id)
    ELSE specs[i].kind \o "-" \o ToString(i - 1)

\* the positions whose resolved id is the requested one
Matching(c) ==
    {i \in DOMAIN Entry(c).install :
        ResolvedId(Entry(c).install, i) = call[c].inp.installId}

\* C14: the spec a call selects is the one of lowest index whose resolved id
\* is the requested install id, none exactly when no resolved id is the
\* requested one; a call selects once and keeps its selection.
C14_FirstMatchWins ==
    /\ [](\A c \in Calls :
            (call[c].entry # 0 /\ call[c].pc # "start") =>
               /\ call[c].spec = findInstallSpec(Entry(c), call[c].inp.installId)
               /\ (call[c].spec = 0) = (Matching(c) = {})
               /\ call[c].spec # 0 =>
                     /\ call[c].spec \in Matching(c)
                     /\ \A i \in Matching(c) : call[c].spec <= i)
    /\ [][\A c \in Calls :
            call[c].pc \notin {"idle", "start"} => call'[c].spec = call[c].spec]_vars

\* Two specs resolve to the requested id, and the call ran the command of
\* the first
C14_Witness ==
    \E c \in Calls :
       /\ call[c].pc = "done"
       /\ call[c].spec # 0
       /\ \E i \in Matching(c) : i > call[c].spec
       /\ LaunchesIn(c, "final") # {}


\* call c has asked nothing of the runner, the fetch or the file system
Untouched(c) ==
    /\ call[c].launched = <<>>
    /\ call[c].fetches = <<>>
    /\ call[c].asked = 0

\* C15: a call for an absent skill ends at once, not ok, code null, without
\* scan, fetch or subprocess; a call for a skill without a spec of the
\* requested id ends after the scan, not ok, code null, with the scan
\* warnings, without fetch or subprocess.
C15_NotFoundIsTerminal ==
    \A c \in Calls :
       /\ (call[c].entry = 0 /\ call[c].pc \notin {"idle", "start"}) =>
             /\ call[c].pc = "done"
             /\ call[c].result =
                   Result(FALSE, <<"Skill not found", call[c].inp.skillName>>,
                          <<>>, <<>>, NULL)
             /\ call[c].scans = 0
             /\ Untouched(c)
       /\ (call[c].entry # 0 /\ call[c].spec = 0) =>
             /\ call[c].pc \in {"scan", "dispatch", "done"}
             /\ Untouched(c)
             /\ call[c].pc = "done" =>
                   /\ call[c].scans = 1
                   /\ ~call[c].result.ok
                   /\ call[c].result.code = NULL
                   /\ call[c].result.message =
                         <<"Installer not found", call[c].inp.installId>>
                   /\ call[c].result.stdout = <<>> /\ call[c].result.stderr = <<>>
                   /\ call[c].result.hasWarnings = (call[c].warnings # <<>>)
                   /\ call[c].result.warnings = call[c].warnings

\* A skill with critical findings and no spec of the requested id: the
\* failure carries the warning
C15_Witness ==
    \E c \in Calls :
       /\ call[c].pc = "done"
       /\ call[c].entry # 0 /\ call[c].spec = 0
       /\ call[c].scanned.critical > 0
       /\ call[c].result.hasWarnings


\* the calls whose spec the Strategy Resolver has refused
Refused(c) ==
    /\ PastBuild(c)
    /\ buildInstallCommand(TheSpec(c), call[c].inp.prefs).error # None

\* C16: when the Strategy Resolver refuses the spec of a call, the call ends
\* there: not ok, code null, the resolver's error as message, empty stdout,
\* a stderr that opens the debug payload and holds the skill's name, the
\* install id and the spec, the scan warnings attached; no brew resolution,
\* no prerequisite resolution, no subprocess.
C16_ResolverErrorEndsCall ==
    \A c \in Calls :
       Refused(c) =>
          LET r == call[c].result
          IN  /\ call[c].pc = "done"
              /\ ~r.ok /\ r.code = NULL
              /\ r.message = <<buildInstallCommand(TheSpec(c), call[c].inp.prefs).error>>
              /\ r.stdout = <<>>
              /\ Head(r.stderr) = "Invalid installer spec (debug follows)"
              /\ {"skill.name: " \o Entry(c).name,
                  "installId: " \o call[c].inp.installId,
                  "spec.kind: " \o TheSpec(c).kind} \subseteq Range(r.stderr)
              /\ TheSpec(c).id # None =>
                    ("spec.id: " \o TheSpec(c).id) \in Range(r.stderr)
              /\ r.hasWarnings = (call[c].warnings # <<>>)
              /\ r.warnings = call[c].warnings
              /\ call[c].brewExe = None
              /\ call[c].prereq.status = "none"
              /\ call[c].required = <<>>
              /\ Untouched(c)

\* A spec of unsupported kind, on a host with brew and a missing required
\* binary: the call ended with the resolver's error and the scan warning
C16_Witness ==
    \E c \in Calls :
       /\ call[c].pc = "done"
       /\ Refused(c)
       /\ call[c].result.message = <<"unsupported installer">>
       /\ call[c].result.hasWarnings


\* C17: when the Prerequisite Resolver fails the call ends there: not ok,
\* code null, the resolver's message, the resolver's accumulated stdout and
\* stderr (trimmed), warnings attached; no bootstrap, no brew --prefix probe
\* and no final command is run.
C17_PrereqFailureStops ==
    \A c \in Calls :
       call[c].prereq.status = "failed" =>
          LET r == call[c].result
              p == call[c].prereq
          IN  /\ call[c].pc = "done"
              /\ ~r.ok /\ r.code = NULL
              /\ r.message = p.message
              /\ p.stdout = call[c].stdoutParts /\ p.stderr = call[c].stderrParts
              /\ r.stdout = TrimText(p.stdout)
              /\ r.stderr = TrimText(p.stderr)
              /\ r.hasWarnings = (call[c].warnings # <<>>)
              /\ r.warnings = call[c].warnings
              /\ \A i \in DOMAIN call[c].launched :
                    call[c].launched[i].phase = "prereq"

\* A uv spec on a host without uv: the resolver failed after a candidate
\* wrote to stderr, and the call returned without running brew install uv
C17_Witness ==
    \E c \in Calls :
       /\ call[c].pc = "done"
       /\ call[c].prereq.status = "failed"
       /\ TheSpec(c).kind = "uv" /\ ~hasBinary(HostOf(c), "uv")
       /\ call[c].brewExe # None
       /\ call[c].result.stderr # <<>>
       /\ LaunchesIn(c, "prereq") # {}


\* the final command of call c was launched and the runner threw
FinalThrew(c) ==
    \E i \in LaunchesIn(c, "final") : call[c].launched[i].threw

\* C18: an exception of the runner on the final command does not leave the
\* call: the call returns not ok, code null, with the error's message as the
\* last line of stderr, after the stderr of the prerequisite phase, and the
\* warnings attached.
C18_FinalThrowIsCaught ==
    \A c \in Calls :
       FinalThrew(c) =>
          LET r == call[c].result
          IN  /\ call[c].pc = "done"
              /\ ~r.ok /\ r.code = NULL
              /\ r.stderr = TrimText(call[c].prereq.stderr) \o <<"runner error">>
              /\ r.stdout = TrimText(call[c].prereq.stdout)
              /\ r.hasWarnings = (call[c].warnings # <<>>)
              /\ r.warnings = call[c].warnings

\* The runner threw on the final command of a call whose prerequisite phase
\* had written to stderr and whose scan had warned
C18_Witness ==
    \E c \in Calls :
       /\ call[c].pc = "done"
       /\ FinalThrew(c)
       /\ call[c].prereq.stderr # <<>>
       /\ Len(call[c].result.stderr) > 1
       /\ call[c].result.hasWarnings


\* the runner or the guarded fetch threw during call c
CollaboratorThrew(c) ==
    \/ \E i \in DOMAIN call[c].launched : call[c].launched[i].threw
    \/ \E i \in DOMAIN call[c].fetches : ~call[c].fetches[i].handle

\* C19 as stated: whenever the process runner or the guarded fetch threw, in
\* whatever phase, the call has returned a result that is not ok (it did not
\* throw).
C19_NoThrowEscapes ==
    \A c \in Calls :
       CollaboratorThrew(c) => (call[c].pc = "done" /\ ~call[c].result.ok)


\* the answer of the runner to the final command of call c, the last thing
\* the call asked
FinalAnswer(c) == oracle[call[c].oracle][call[c].asked]

FinalStdout(c) == IF FinalAnswer(c).throws THEN <<>> ELSE FinalAnswer(c).stdout
FinalStderr(c) ==
    IF FinalAnswer(c).throws THEN <<"runner error">> ELSE FinalAnswer(c).stderr

\* the header lines the resolver writes for the attempts of call c, in the
\* order of the attempts
StdoutHeaders(c) ==
    [i \in DOMAIN call[c].attempted |->
        "==> prereq " \o call[c].attempted[i].bin \o ": " \o call[c].attempted[i].message]

StderrHeaders(c) ==
    LET wrote == SelectSeq(call[c].attempted, LAMBDA a : a.stderr # <<>>)
    IN  [i \in DOMAIN wrote |-> "==> prereq " \o wrote[i].bin \o " stderr"]

\* C20: once the final command has run, stdout is the output of the
\* prerequisite phase followed by the output of the final command, each
\* without its outer blank lines and left out when empty, and stderr
\* likewise; within the prerequisite part the binaries come in the order
\* they were attempted, which is the order of the missing binaries.
C20_PrereqOutputFirst ==
    \A c \in Calls :
       (call[c].pc = "done" /\ LaunchesIn(c, "final") # {}) =>
          LET r == call[c].result
          IN  /\ r.stdout = TrimText(call[c].stdoutParts) \o TrimText(FinalStdout(c))
              /\ r.stderr = TrimText(call[c].stderrParts) \o TrimText(FinalStderr(c))
              /\ r.stdout # <<>> => Head(r.stdout) # "" /\ r.stdout[Len(r.stdout)] # ""
              /\ r.stderr # <<>> => Head(r.stderr) # "" /\ r.stderr[Len(r.stderr)] # ""
              /\ SelectSeq(r.stdout, LAMBDA line : line \in Range(StdoutHeaders(c)))
                    = StdoutHeaders(c)
              /\ SelectSeq(r.stderr, LAMBDA line : line \in Range(StderrHeaders(c)))
                    = StderrHeaders(c)
              /\ [i \in DOMAIN call[c].attempted |-> call[c].attempted[i].bin]
                    = call[c].missing
              /\ call[c].attempted # <<>> => Head(r.stdout) = StdoutHeaders(c)[1]

\* Two binaries were installed, one writing to stderr, and the final command
\* failed with output of its own
C20_Witness ==
    \E c \in Calls :
       /\ call[c].pc = "done"
       /\ LaunchesIn(c, "final") # {}
       /\ Len(call[c].attempted) = 2
       /\ call[c].stderrParts # <<>>
       /\ TrimText(FinalStderr(c)) # <<>>
       /\ ~call[c].result.ok


---------------------------------------------------------------------------
(* The fetcher and extractor *)

\* the download of call c completed: the body was written and measured
Downloaded(c) == call[c].downloaded # "0"

ArchiveTypeOf(c) == resolveArchiveType(TheSpec(c), call[c].filename)

\* C21: a download spec whose download succeeded reports a plain download
\* success (ok, code 0, the byte count on stdout) and runs no extraction
\* subprocess, both when extract is false and when extract is true but no
\* archive type is detected
C21_PlainSuccessWithoutExtraction ==
    \A c \in Calls :
        ( /\ call[c].pc = "done"
          /\ Downloaded(c)
          /\ \/ TheSpec(c).extract = "false"
             \/ TheSpec(c).extract = "true" /\ ArchiveTypeOf(c) = None )
        => /\ call[c].result.ok
           /\ call[c].result.code = 0
           /\ call[c].result.stdout = <<"downloaded=" \o call[c].downloaded>>
           /\ LaunchesIn(c, "extract") = {}


\* spec.extract ?? Boolean(archiveType), for the spec of call c
ShouldExtract(c) ==
    IF TheSpec(c).extract # None THEN TheSpec(c).extract = "true"
    ELSE ArchiveTypeOf(c) # None

ExtractTool(c) == IF ArchiveTypeOf(c) = "zip" THEN "unzip" ELSE "tar"

IsDownload(c) == call[c].spec # 0 /\ TheSpec(c).kind = "download"

\* C22: an extraction subprocess runs only after the download succeeded, at
\* most once per call, with unzip for a zip archive and tar for any other
\* type; a call whose download failed ends with ok=false and code null;
\* with extract unspecified, extraction is undertaken exactly when an
\* archive type is detected; and a finished call that had to extract with
\* its tool present has run exactly one extraction subprocess
C22_ExtractAfterDownload ==
    \A c \in Calls :
        LET runs == LaunchesIn(c, "extract")
        IN  /\ runs # {} =>
                /\ IsDownload(c) /\ Downloaded(c)
                /\ ShouldExtract(c) /\ ArchiveTypeOf(c) # None
                /\ Cardinality(runs) = 1
                /\ \A i \in runs : call[c].launched[i].argv[1] = ExtractTool(c)
            /\ (IsDownload(c) /\ call[c].pc = "done" /\ ~Downloaded(c)) =>
                /\ ~call[c].result.ok
                /\ call[c].result.code = NULL
                /\ runs = {}
            /\ ( /\ IsDownload(c) /\ Finished(c) /\ Downloaded(c)
                 /\ TheSpec(c).extract = None ) =>
                IF ArchiveTypeOf(c) = None
                THEN runs = {} /\ call[c].result.ok
                ELSE IF hasBinary(HostOf(c), ExtractTool(c))
                THEN Cardinality(runs) = 1
                ELSE call[c].result.stderr = <<ExtractTool(c) \o " not found on PATH">>
            /\ ( /\ IsDownload(c) /\ Finished(c) /\ Downloaded(c)
                 /\ ShouldExtract(c) /\ ArchiveTypeOf(c) # None
                 /\ hasBinary(HostOf(c), ExtractTool(c)) ) =>
                Cardinality(runs) = 1

\* a .zip download with extract unspecified has run unzip, which exited 0
C22_Witness ==
    \E c \in Calls :
        /\ call[c].pc = "done" /\ call[c].result.ok
        /\ TheSpec(c).extract = None /\ TheSpec(c).archive = None
        /\ call[c].filename = "Tool.ZIP"
        /\ \E i \in LaunchesIn(c, "extract") : call[c].launched[i].argv[1] = "unzip"


\* the largest integer not above tenths/10
FloorOfTenths(tenths) ==
    CHOOSE n \in -10..10 : 10 * n <= tenths /\ tenths < 10 * (n + 1)

\* C23: the tar command carries --strip-components max(0, floor(n)) when
\* stripComponents is a finite number n and no such option when it is absent
\* or not finite; the unzip command never carries it
C23_StripComponentsToTarOnly ==
    \A c \in Calls : \A i \in LaunchesIn(c, "extract") :
        LET argv  == call[c].launched[i].argv
            strip == TheSpec(c).stripComponents
        IN  IF argv[1] = "unzip"
            THEN argv = <<"unzip", "-q", call[c].archivePath, "-d", call[c].targetDir>>
            ELSE /\ SubSeq(argv, 1, 4) = <<"tar", "xf", call[c].archivePath, "-C">>
                 /\ argv[5] = call[c].targetDir
                 /\ IF strip.kind = "number"
                    THEN LET n == FloorOfTenths(strip.tenths)
                         IN  /\ Len(argv) = 7
                             /\ argv[6] = "--strip-components"
                             /\ argv[7] = ToString(IF n < 0 THEN 0 ELSE n)
                    ELSE Len(argv) = 5

\* tar has run for a spec with stripComponents -1.5, floored at zero
C23_Witness ==
    \E c \in Calls : \E i \in LaunchesIn(c, "extract") :
        /\ call[c].launched[i].argv[1] = "tar"
        /\ TheSpec(c).stripComponents = [kind |-> "number", tenths |-> -15]
        /\ call[c].launched[i].argv[7] = "0"


\* the handles the guarded fetch gave call c
Handles(c) == {i \in DOMAIN call[c].fetches : call[c].fetches[i].handle}

\* downloadFile is between its fetch and its return
InDownloadFile(c) == call[c].pc = "save"

\* C24: release() is invoked exactly once for every handle the guarded fetch
\* returned, before downloadFile returns or throws (success, non-success
\* status, missing body, directory-creation error, stream-write error), and
\* never without a handle
C24_ReleaseExactlyOnce ==
    \A c \in Calls :
        /\ call[c].releases =
              IF InDownloadFile(c) THEN Cardinality(Handles(c)) - 1
              ELSE Cardinality(Handles(c))
        /\ InDownloadFile(c) => Handles(c) # {}

\* downloadFile has thrown from the stream write with its handle released
C24_Witness ==
    \E c \in Calls :
        /\ call[c].pc = "done" /\ ~call[c].result.ok
        /\ call[c].result.message = <<"pipeline failed">>
        /\ Handles(c) # {} /\ call[c].releases = 1


---------------------------------------------------------------------------
(* Concurrent and repeated calls *)

\* call c saw bin missing and has launched an installer for it
InstallingMissing(c, bin) ==
    /\ \E i \in DOMAIN call[c].missing : call[c].missing[i] = bin
    /\ \E i \in LaunchesIn(c, "prereq") : call[c].launched[i].bin = bin

\* C25: concurrent duplicate installs are not deduplicated.  Neither of two
\* concurrent calls for the same skill and install id ever waits for the
\* other: a call that has not finished can always take its next step,
\* whatever the other call is doing
C25_NoCallWaitsForAnother ==
    \A c \in Calls : ~Finished(c) => ENABLED Step(c)

\* both calls have seen git missing and each has launched an installer for
\* it, neither having finished
C25_Witness ==
    /\ \A c \in Calls : ~Finished(c) /\ InstallingMissing(c, "git")
    /\ call[1].inp = call[2].inp


---------------------------------------------------------------------------
(* The failure formatter *)

\* the requirement phrases in the combined output of a result, and whether
\* the host of call c fails each requirement
NeedsArm64(r) == \E l \in Range(r.stderr) \cup Range(r.stdout) : l \in Arm64Lines
NeedsMacos(r) == \E l \in Range(r.stderr) \cup Range(r.stdout) : l \in MacosLines
NeedsLinux(r) == \E l \in Range(r.stderr) \cup Range(r.stdout) : l \in LinuxLines

Arm64Unmet(c) == NeedsArm64(call[c].result) /\ host[HostOf(c)].arch # "arm64"
MacosUnmet(c) == NeedsMacos(call[c].result) /\ host[HostOf(c)].platform # "darwin"
LinuxUnmet(c) == NeedsLinux(call[c].result) /\ host[HostOf(c)].platform # "linux"

HintTexts ==
    {"Not supported on this machine architecture (requires arm64)",
     "Not supported on this OS (requires macOS)",
     "Not supported on this OS (requires Linux)"}

\* the positions of the message that hold a hint
HintsIn(message) == {i \in DOMAIN message : message[i] \in HintTexts}

\* C27: the failure message carries a platform hint exactly when the
\* combined output holds an incompatibility phrase whose requirement the
\* host does not meet; the hint is that of the first such phrase in the
\* order arm64, macOS, Linux; the message always starts with the exit label
\* and the hint comes before the summary
C27_HintOnlyForUnmetRequirement ==
    \A c \in Calls :
        call[c].pc = "done" =>
           LET m     == call[c].result.message
               hints == HintsIn(m)
               label == IF call[c].result.code = NULL THEN "unknown exit"
                        ELSE "exit " \o ToString(call[c].result.code)
           IN  /\ Len(m) >= 2 /\ m[1] = "Install failed" /\ m[2] = label
               /\ (hints # {}) = (Arm64Unmet(c) \/ MacosUnmet(c) \/ LinuxUnmet(c))
               /\ hints \subseteq {3}
               /\ Arm64Unmet(c) =>
                     m[3] = "Not supported on this machine architecture (requires arm64)"
               /\ (~Arm64Unmet(c) /\ MacosUnmet(c)) =>
                     m[3] = "Not supported on this OS (requires macOS)"
               /\ (~Arm64Unmet(c) /\ ~MacosUnmet(c) /\ LinuxUnmet(c)) =>
                     m[3] = "Not supported on this OS (requires Linux)"
               /\ hints # {} =>
                     m[4] = IF m[3] = "Not supported on this machine architecture (requires arm64)"
                            THEN host[HostOf(c)].arch ELSE host[HostOf(c)].platform

\* on an arm64 Linux host, output naming an arm64 and a macOS requirement
\* gives the macOS hint, followed by the summary
C27_Witness ==
    \E c \in Calls :
        /\ call[c].pc = "done"
        /\ host[HostOf(c)].arch = "arm64" /\ host[HostOf(c)].platform = "linux"
        /\ NeedsArm64(call[c].result) /\ NeedsMacos(call[c].result)
        /\ call[c].result.message[3] = "Not supported on this OS (requires macOS)"
        /\ Len(call[c].result.message) = 5


---------------------------------------------------------------------------
(* The candidate chain *)

KindRank == ("brew" :> 1) @@ ("apt" :> 2) @@ ("node" :> 3) @@ ("go" :> 4)

\* the installer kind of a prerequisite launch, read off its command
LaunchKind(c, l) ==
    IF l.argv[1] = "apt-get" THEN "apt"
    ELSE IF Len(l.argv) = 3 /\ l.argv[1] = "go" /\ l.argv[2] = "install" THEN "go"
    ELSE IF call[c].brewExe # None /\ l.argv[1] = call[c].brewExe THEN "brew"
    ELSE "node"

\* the prerequisite launches of call c for bin
LaunchesFor(c, bin) ==
    {i \in LaunchesIn(c, "prereq") : call[c].launched[i].bin = bin}

BrewApplies(c, bin) ==
    /\ call[c].inp.prefs.preferBrew
    /\ call[c].brewExe # None
    /\ bin \in Keys /\ BIN_INSTALL_ALLOWLIST[bin].brew # <<>>

AptApplies(c, bin) ==
    /\ host[HostOf(c)].platform = "linux"
    /\ "apt-get" \in host[HostOf(c)].present
    /\ host[HostOf(c)].uid = 0
    /\ bin \in Keys /\ BIN_INSTALL_ALLOWLIST[bin].apt # <<>>

\* entries with candidates of every kind, as the table's type allows
SampleEntries ==
    { [apt |-> apt, brew |-> brew, node |-> node, go |-> goMods] :
        apt \in {<<>>, <<"p">>}, brew \in {<<>>, <<"f", "g">>},
        node \in {<<>>, <<"n">>}, goMods \in {<<>>, <<"m">>} }

\* C28: for each missing allow-listed binary the candidates run in the order
\* brew, apt, node, go and a candidate that exits 0 is the last one run for
\* it; a brew candidate runs only if the caller prefers brew, a brew
\* executable is resolved and the entry has a brew candidate, and then it
\* runs first; an apt-get candidate runs only on Linux with apt-get
\* discoverable and uid 0; when no candidate applies the binary fails with
\* "No applicable installer" and no subprocess.  The last conjunct is the
\* chain tryInstallPrereqBin would build, where it builds one, for entries
\* that have node and go candidates too
C28_CandidateOrder ==
    \A c \in Calls :
       /\ \A i, j \in LaunchesIn(c, "prereq") :
             LET a == call[c].launched[i]
                 b == call[c].launched[j]
             IN  (i < j /\ a.bin = b.bin) =>
                    /\ KindRank[LaunchKind(c, a)] <= KindRank[LaunchKind(c, b)]
                    /\ a.code # 0
       /\ \A i \in LaunchesIn(c, "prereq") :
             LET l == call[c].launched[i]
             IN  /\ LaunchKind(c, l) = "brew" => BrewApplies(c, l.bin)
                 /\ LaunchKind(c, l) = "apt" => AptApplies(c, l.bin)
                 /\ (BrewApplies(c, l.bin) /\ \A j \in LaunchesFor(c, l.bin) : i <= j) =>
                       LaunchKind(c, l) = "brew"
       /\ \A j \in DOMAIN call[c].attempted :
             LET a == call[c].attempted[j]
             IN  (a.bin \in Keys /\ ~BrewApplies(c, a.bin) /\ ~AptApplies(c, a.bin)) =>
                    /\ ~a.ok
                    /\ a.message \in
                         {"No applicable installer for " \o a.bin,
                          "No applicable installer for " \o a.bin
                             \o " (apt-get present but needs root)"}
                    /\ LaunchesFor(c, a.bin) = {}
       /\ call[c].pc = "try" => \A e \in SampleEntries :
             LET chain == BuildAttempts(HostOf(c), e, call[c].inp.prefs, call[c].brewExe)
             IN  /\ \A i, j \in DOMAIN chain :
                       i < j => KindRank[chain[i].kind] <= KindRank[chain[j].kind]
                 /\ (\E i \in DOMAIN chain : chain[i].kind = "brew") =
                       (call[c].inp.prefs.preferBrew /\ call[c].brewExe # None
                          /\ e.brew # <<>>)
                 /\ (\E i \in DOMAIN chain : chain[i].kind = "apt") =
                       (host[HostOf(c)].platform = "linux" /\ host[HostOf(c)].uid = 0
                          /\ "apt-get" \in host[HostOf(c)].present /\ e.apt # <<>>)
                 /\ Len(SelectSeq(chain, LAMBDA x : x.kind = "node")) = Len(e.node)
                 /\ Len(SelectSeq(chain, LAMBDA x : x.kind = "go")) = Len(e.go)

\* git was tried with brew, which failed, and then with apt-get, which
\* exited 0 and ended the chain
C28_Witness ==
    \E c \in Calls :
       /\ call[c].prereq.status # "none"
       /\ Cardinality(LaunchesFor(c, "git")) = 2
       /\ \E i, j \in LaunchesFor(c, "git") :
             /\ i < j
             /\ LaunchKind(c, call[c].launched[i]) = "brew" /\ call[c].launched[i].code = 1
             /\ LaunchKind(c, call[c].launched[j]) = "apt" /\ call[c].launched[j].code = 0


\* the run, inside the loop over the chain, of the last candidate for bin
FailedRunOfLast(c, bin) ==
    LET runs == {i \in LaunchesFor(c, bin) :
                    call[c].launched[i].argv = LastCandidate(c, bin)}
    IN  CHOOSE i \in runs : \A j \in runs : i <= j

\* C29: when every candidate for a missing binary failed, the attempt
\* returned is not ok, names the kind of the last candidate, carries the
\* exit code of that candidate's failed run and so never exit code 0
C29_FailureCarriesFailedRun ==
    \A c \in Calls : \A j \in DOMAIN call[c].attempted :
       LET a == call[c].attempted[j]
       IN  (~a.ok /\ LaunchesFor(c, a.bin) # {}) =>
              /\ a.code # 0
              /\ a.code = call[c].launched[FailedRunOfLast(c, a.bin)].code
              /\ a.message = "Failed to auto-install prerequisite ("
                               \o LaunchKind(c, call[c].launched[FailedRunOfLast(c, a.bin)])
                               \o "): " \o a.bin


---------------------------------------------------------------------------
(* Routing of download specs *)

\* the positions of the Strategy Resolver, the brew resolution, the
\* Prerequisite Resolver, the bootstrap and the final command
PackagePositions ==
    {"build", "brew", "prereq", "try", "attempt", "rerun", "recheck",
     "bootstrap", "bootrun", "env", "prefix", "final"}

\* C30: a download spec goes from the scan straight to the fetcher and
\* extractor.  Its call is never in a position of the Strategy Resolver, the
\* brew resolution, the Prerequisite Resolver, the bootstrap or the final
\* command; requires.bins and anyBins are not evaluated; the only
\* subprocess it runs is unzip or tar; and its result carries the warnings
\* of the scan
C30_DownloadBypassesResolvers ==
    \A c \in Calls :
       IsDownload(c) =>
          /\ call[c].pc \notin PackagePositions
          /\ call[c].brewExe = None
          /\ call[c].prereq.status = "none"
          /\ call[c].required = <<>> /\ call[c].missing = <<>> /\ call[c].anyBins = <<>>
          /\ call[c].attempted = <<>>
          /\ \A i \in DOMAIN call[c].launched :
                /\ call[c].launched[i].phase = "extract"
                /\ call[c].launched[i].argv[1] \in {"unzip", "tar"}
          /\ call[c].pc = "done" =>
                /\ call[c].result.message # <<"download install handled separately">>
                /\ call[c].result.message # <<"Missing prerequisite: need one of", "a">>
                /\ LET w == collectSkillInstallScanWarnings(Entry(c).name, call[c].scanned)
                   IN  /\ call[c].result.hasWarnings = (w # <<>>)
                       /\ call[c].result.warnings = w

\* a download for a skill whose required binary jq and any-of binary a are
\* both missing has been fetched, unpacked with tar and returned ok with the
\* warnings of the scan
C30_Witness ==
    \E c \in Calls :
       /\ IsDownload(c) /\ call[c].pc = "done" /\ call[c].result.ok
       /\ Entry(c).requiresBins = <<"jq">> /\ ~hasBinary(HostOf(c), "jq")
       /\ Entry(c).anyBins = <<"a">> /\ ~hasBinary(HostOf(c), "a")
       /\ call[c].result.hasWarnings
       /\ \E i \in LaunchesIn(c, "extract") : call[c].launched[i].argv[1] = "tar"


---------------------------------------------------------------------------
(* Timeouts, brew and the bootstrap *)

\* the requested timeout of call c brought into [1000, 900000]
ClampedOf(c) ==
    LET t == TimeoutOf(call[c].inp.timeoutMs)
    IN  IF t < 1000 THEN 1000 ELSE IF t > 900000 THEN 900000 ELSE t

\* C31: every timeout handed to the process runner or to the guarded fetch
\* lies in [1000, 900000] and does not exceed the clamped timeout of the
\* call: the prerequisite attempts, the bootstrap, the extraction, the
\* download and the final command get the clamped value, the brew --prefix
\* probe gets min(clamped, 30000)
C31_EveryTimeoutBounded ==
    \A c \in Calls :
       /\ \A i \in DOMAIN call[c].launched :
             LET l == call[c].launched[i]
             IN  /\ l.timeoutMs >= 1000 /\ l.timeoutMs <= 900000
                 /\ l.timeoutMs <= ClampedOf(c)
                 /\ l.phase \in {"prereq", "bootstrap", "extract", "final", "prefix"}
                 /\ l.phase # "prefix" => l.timeoutMs = ClampedOf(c)
                 /\ l.phase = "prefix" =>
                       l.timeoutMs = IF ClampedOf(c) < 30000 THEN ClampedOf(c) ELSE 30000
       /\ \A i \in DOMAIN call[c].fetches :
             call[c].fetches[i].timeoutMs = ClampedOf(c)

\* a go install asked with timeoutMs 10000000: the probe ran with 30000 and
\* the final command with 900000
C31_Witness ==
    \E c \in Calls :
       /\ call[c].inp.timeoutMs = [given |-> TRUE, ms |-> 10000000]
       /\ \E i \in LaunchesIn(c, "prefix") : call[c].launched[i].timeoutMs = 30000
       /\ \E i \in LaunchesIn(c, "final") : call[c].launched[i].timeoutMs = 900000


\* no brew on the lookup path of call c's host and none found elsewhere
BrewUnresolved(c) ==
    ~hasBinary(HostOf(c), "brew") /\ host[HostOf(c)].brewPath = None

\* call c has a spec from which a command was built
CommandBuilt(c) ==
    /\ call[c].spec # 0
    /\ TheSpec(c).kind \in {"brew", "node", "go", "uv"}
    /\ buildInstallCommand(TheSpec(c), call[c].inp.prefs).error = None

BrewBlamed ==
    { <<"brew not installed">>, <<"uv not installed (install via brew)">>,
      <<"go not installed (install via brew)">> }

\* C32 as stated: without a brew executable the call fails on that account
\* only for brew specs ("brew not installed", before prerequisite
\* resolution, no subprocess); the result of a node, uv or go spec is never
\* a failure for want of brew
C32_BrewAbsenceFatalOnlyForBrew ==
    \A c \in Calls :
       (call[c].pc = "done" /\ CommandBuilt(c) /\ BrewUnresolved(c)) =>
          IF TheSpec(c).kind = "brew"
          THEN /\ call[c].result.message = <<"brew not installed">>
               /\ call[c].launched = <<>> /\ call[c].prereq.status = "none"
          ELSE call[c].result.message \notin BrewBlamed

\* C32 amended: "brew not installed" is the result exactly of a brew spec
\* without a brew executable, returned before prerequisite resolution and
\* without any subprocess; a node, uv or go spec passes the brew step
\* whether or not brew is resolved and goes through prerequisite resolution;
\* after that, want of brew fails only a uv or go spec whose own tool is
\* missing ("<tool> not installed (install via brew)"), and never a node
\* spec
C32_BrewStepFatalOnlyForBrew ==
    \A c \in Calls :
       (call[c].pc = "done" /\ CommandBuilt(c)) =>
          /\ (call[c].result.message = <<"brew not installed">>) =
                (TheSpec(c).kind = "brew" /\ BrewUnresolved(c))
          /\ call[c].result.message = <<"brew not installed">> =>
                /\ ~call[c].result.ok /\ call[c].result.code = NULL
                /\ call[c].launched = <<>> /\ call[c].prereq.status = "none"
          /\ TheSpec(c).kind # "brew" => call[c].prereq.status # "none"
          /\ \A tool \in {"uv", "go"} :
                (call[c].result.message = <<tool \o " not installed (install via brew)">>) =
                   ( /\ TheSpec(c).kind = tool /\ BrewUnresolved(c)
                     /\ call[c].prereq.status = "ok"
                     /\ ~hasBinary(HostOf(c), tool) )

\* a brew spec on a host without brew was refused before anything ran
C32_Witness ==
    \E c \in Calls :
       /\ call[c].pc = "done" /\ CommandBuilt(c)
       /\ TheSpec(c).kind = "brew" /\ BrewUnresolved(c)
       /\ call[c].result.message = <<"brew not installed">>
       /\ Entry(c).requiresBins = <<"git">> /\ ~hasBinary(HostOf(c), "git")


\* call c has a uv or go spec, its prerequisites are resolved and it is past
\* the test for its installer tool
PastToolTest(c) ==
    /\ CommandBuilt(c) /\ TheSpec(c).kind \in {"uv", "go"}
    /\ call[c].prereq.status = "ok"
    /\ call[c].pc \notin {"bootstrap", "bootrun"}

\* the last response the collaborators gave call c
LastResponse(c) == oracle[call[c].oracle][call[c].asked]

\* C33: a uv or go spec whose tool is not discoverable once the
\* prerequisites are resolved, with a brew executable resolved, runs exactly
\* one bootstrap subprocess, brew install uv or brew install go, after every
\* prerequisite subprocess and before the probe and the final command; a
\* bootstrap that exits non-zero or times out ends the call with ok=false,
\* its exit code and its output, and no final command
C33_OneBootstrapBeforeFinal ==
    \A c \in Calls :
       LET boots == LaunchesIn(c, "bootstrap")
           tool  == TheSpec(c).kind
       IN  /\ boots # {} =>
                 /\ CommandBuilt(c) /\ tool \in {"uv", "go"}
                 /\ call[c].prereq.status = "ok" /\ call[c].brewExe # None
                 /\ Cardinality(boots) = 1
           /\ \A i \in boots :
                 /\ call[c].launched[i].argv = <<call[c].brewExe, "install", tool>>
                 /\ \A j \in LaunchesIn(c, "prereq") : j < i
                 /\ \A j \in LaunchesIn(c, "prefix") \cup LaunchesIn(c, "final") : i < j
                 /\ (call[c].launched[i].code # 0 /\ ~call[c].launched[i].threw) =>
                       /\ call[c].pc = "done" /\ ~call[c].result.ok
                       /\ call[c].result.code = call[c].launched[i].code
                       /\ call[c].result.message = <<"Failed to install " \o tool \o " (brew)">>
                       /\ call[c].result.stdout = TrimText(LastResponse(c).stdout)
                       /\ call[c].result.stderr = TrimText(LastResponse(c).stderr)
                       /\ LaunchesIn(c, "final") = {} /\ LaunchesIn(c, "prefix") = {}
           /\ (call[c].pc = "bootrun") =>
                 ~hasBinary(HostOf(c), tool) /\ call[c].brewExe # None /\ boots = {}
           /\ (PastToolTest(c) /\ call[c].brewExe # None) =>
                 \/ Cardinality(boots) = 1
                 \/ boots = {} /\ hasBinary(HostOf(c), tool)

\* brew install go ran after a prerequisite was installed, timed out, and
\* the call returned without a final command
C33_Witness ==
    \E c \in Calls :
       /\ call[c].pc = "done" /\ CommandBuilt(c) /\ TheSpec(c).kind = "go"
       /\ LaunchesIn(c, "prereq") # {}
       /\ \E i \in LaunchesIn(c, "bootstrap") : TimedOut(call[c].launched[i])
       /\ LaunchesIn(c, "final") = {}
       /\ call[c].result.code = NULL


\* C34: a uv or go spec whose tool is not discoverable once the
\* prerequisites are resolved, with no brew executable resolved, ends with
\* ok=false, code null and "<tool> not installed (install via brew)"; no
\* bootstrap subprocess and no final command is run
C34_ToolMissingWithoutBrew ==
    \A c \in Calls :
       ( /\ CommandBuilt(c) /\ TheSpec(c).kind \in {"uv", "go"}
         /\ call[c].prereq.status = "ok"
         /\ BrewUnresolved(c)
         /\ ~hasBinary(HostOf(c), TheSpec(c).kind) )
       => /\ call[c].pc \in {"bootstrap", "done"}
          /\ LaunchesIn(c, "bootstrap") = {}
          /\ LaunchesIn(c, "prefix") = {} /\ LaunchesIn(c, "final") = {}
          /\ call[c].pc = "done" =>
                /\ ~call[c].result.ok /\ call[c].result.code = NULL
                /\ call[c].result.message =
                      <<TheSpec(c).kind \o " not installed (install via brew)">>
                /\ call[c].result.stdout = <<>> /\ call[c].result.stderr = <<>>

\* a go spec whose prerequisite git was installed with apt-get ends for want
\* of go, no brew being there to install it
C34_Witness ==
    \E c \in Calls :
       /\ call[c].pc = "done" /\ CommandBuilt(c) /\ TheSpec(c).kind = "go"
       /\ BrewUnresolved(c) /\ call[c].prereq.status = "ok"
       /\ LaunchesIn(c, "prereq") # {}
       /\ call[c].result.message = <<"go not installed (install via brew)">>


---------------------------------------------------------------------------
(* Archive types and extraction tools *)

\* the type each file name of the downloads stands for
TypeBySuffix ==
    ("tool.tar.gz" :> "tar.gz") @@ ("a.tgz" :> "tar.gz")
    @@ ("x.tar.bz2" :> "tar.bz2") @@ ("y.tbz2" :> "tar.bz2")
    @@ ("Tool.ZIP" :> "zip") @@ ("tool.bin" :> None) @@ ("download" :> None)

\* the overrides of the downloads, trimmed and lower-cased; None: blank
OverrideTypes == (" ZIP " :> "zip") @@ ("7z" :> "7z") @@ ("  " :> None)

\* C35: a non-empty archive override of the spec, trimmed and lower-cased,
\* is the archive type whatever the file name; without one the type is that
\* of the file name's suffix, any case (.tar.gz/.tgz, .tar.bz2/.tbz2, .zip),
\* and undetected for every other name.  The extraction tool that runs is
\* the one of that type
C35_OverrideThenSuffix ==
    \A c \in Calls :
       (IsDownload(c) /\ call[c].filename # "") =>
          LET archive  == TheSpec(c).archive
              override == IF archive = None THEN None ELSE OverrideTypes[archive]
              expected == IF override # None THEN override
                          ELSE TypeBySuffix[call[c].filename]
          IN  /\ resolveArchiveType(TheSpec(c), call[c].filename) = expected
              /\ \A i \in LaunchesIn(c, "extract") :
                    /\ expected # None
                    /\ call[c].launched[i].argv[1] =
                          IF expected = "zip" THEN "unzip" ELSE "tar"

\* tool.tar.gz with the override " ZIP " was unpacked with unzip
C35_Witness ==
    \E c \in Calls :
       /\ IsDownload(c) /\ call[c].filename = "tool.tar.gz"
       /\ TheSpec(c).archive = " ZIP "
       /\ \E i \in LaunchesIn(c, "extract") : call[c].launched[i].argv[1] = "unzip"


\* C36: when the extraction tool (unzip for zip, tar otherwise) is not
\* discoverable, no subprocess is launched and the call ends with ok=false,
\* code null and "<tool> not found on PATH" on stderr; an extraction that
\* ran and exited non-zero ends with its numeric exit code and its own
\* stderr instead
C36_MissingToolIsAFailure ==
    \A c \in Calls :
       /\ ( /\ IsDownload(c) /\ Downloaded(c)
            /\ ShouldExtract(c) /\ ArchiveTypeOf(c) # None
            /\ ~hasBinary(HostOf(c), ExtractTool(c)) ) =>
             /\ call[c].launched = <<>>
             /\ call[c].pc \in {"unpack", "done"}
             /\ call[c].pc = "done" =>
                   /\ ~call[c].result.ok /\ call[c].result.code = NULL
                   /\ call[c].result.stdout = <<>>
                   /\ call[c].result.stderr = <<ExtractTool(c) \o " not found on PATH">>
                   /\ call[c].result.message =
                         <<"Install failed", "unknown exit",
                           ExtractTool(c) \o " not found on PATH">>
       /\ \A i \in LaunchesIn(c, "extract") :
             LET l == call[c].launched[i]
             IN  (l.code \notin {0, NULL} /\ call[c].pc = "done") =>
                    /\ ~call[c].result.ok
                    /\ call[c].result.code = l.code
                    /\ call[c].result.stderr # <<ExtractTool(c) \o " not found on PATH">>
                    /\ call[c].result.message[2] = "exit " \o ToString(l.code)

\* a .zip download on a host without unzip failed without a subprocess
C36_Witness ==
    \E c \in Calls :
       /\ IsDownload(c) /\ call[c].pc = "done" /\ Downloaded(c)
       /\ call[c].filename = "Tool.ZIP"
       /\ call[c].launched = <<>>
       /\ call[c].result.stderr = <<"unzip not found on PATH">>


---------------------------------------------------------------------------
(* Results *)

\* C37: every result installSkill returns, on every path (skill or
\* installer not found, malformed spec, brew missing, prerequisite failure,
\* bootstrap failure, download, extraction, final command), has ok = true
\* if and only if code = 0
C37_OkIffCodeZero ==
    \A c \in Calls :
       call[c].pc = "done" => (call[c].result.ok = (call[c].result.code = 0))

\* a result of each sign: an extraction that exited 1
C37_Witness ==
    \E c \in Calls :
       /\ call[c].pc = "done" /\ IsDownload(c)
       /\ \E i \in LaunchesIn(c, "extract") : call[c].launched[i].code = 1
       /\ ~call[c].result.ok /\ call[c].result.code = 1


---------------------------------------------------------------------------
(* Order of remediation *)

\* the trimmed non-empty names of a list, in its order
Named(bins) == SelectSeq(TrimAll(bins), NonEmptyStr)

\* the first position of a name in a list (0: not in it)
FirstAt(s, b) ==
    IF \E i \in DOMAIN s : s[i] = b
    THEN CHOOSE i \in DOMAIN s : s[i] = b /\ \A j \in 1..(i - 1) : s[j] # b
    ELSE 0

\* the declaration order: the names of the manifest, then those of the spec
Declared(c) == Named(Entry(c).requiresBins) \o Named(TheSpec(c).bins)

\* s lists each name of d once, in the order of its first occurrence in d
InOrderOf(s, d) ==
    /\ Range(s) = Range(d)
    /\ \A i, j \in DOMAIN s : i < j => FirstAt(d, s[i]) < FirstAt(d, s[j])

\* the resolver of call c has set out on its missing binaries
Remediating(c) == call[c].spec # 0 /\ call[c].missing # <<>>

\* the launches of the resolver follow the missing binaries, and end with
\* the first failed one
RemediatedInOrder ==
    \A c \in Calls : Remediating(c) =>
       LET rec == call[c]
           pos(i) == FirstAt(rec.missing, rec.launched[i].bin)
       IN  /\ InOrderOf(rec.required, Declared(c))
           /\ rec.missing = SelectSeq(rec.required, LAMBDA b : b \notin rec.pathSeen)
           /\ Len(rec.attempted) <= Len(rec.missing)
           /\ \A k \in DOMAIN rec.attempted : rec.attempted[k].bin = rec.missing[k]
           /\ \A i, j \in LaunchesIn(c, "prereq") :
                 /\ pos(i) > 0
                 /\ i < j => pos(i) <= pos(j)
                 /\ \A k \in 1..(pos(i) - 1) :
                       k \in DOMAIN rec.attempted /\ rec.attempted[k].ok
           /\ \A k \in DOMAIN rec.attempted : ~rec.attempted[k].ok =>
                 /\ k = Len(rec.attempted)
                 /\ rec.pc = "done" /\ ~rec.result.ok
                 /\ \A i \in DOMAIN rec.launched :
                       rec.launched[i].phase = "prereq" /\ pos(i) <= k
           /\ rec.pathSeen \subseteq host[HostOf(c)].present

\* C38: the missing required binaries are remediated one at a time in
\* declaration order (manifest requires.bins, then the bins of the spec,
\* duplicates removed); the first binary whose remediation fails ends the
\* resolution: nothing is launched for a later binary, and the binaries
\* installed before it stay installed
C38_InOrderUntilFirstFailure ==
    /\ []RemediatedInOrder
    /\ [][\A h \in DOMAIN host : host[h].present \subseteq host'[h].present]_vars


\* a binary of the manifest was installed, the next one (of the spec) failed,
\* and a third one was never tried
C38_Witness ==
    \E c \in Calls :
       /\ Remediating(c) /\ call[c].pc = "done"
       /\ Len(call[c].missing) > Len(call[c].attempted)
       /\ Len(call[c].attempted) = 2
       /\ call[c].attempted[1].ok /\ ~call[c].attempted[2].ok
       /\ call[c].missing[1] \in Range(Named(Entry(c).requiresBins))
       /\ call[c].missing[2] \notin Range(Named(Entry(c).requiresBins))
       /\ LaunchesFor(c, call[c].missing[1]) # {}
       /\ hasBinary(HostOf(c), call[c].missing[1])


---------------------------------------------------------------------------
(* brew and the caller's preference *)

\* C39: inside the Prerequisite Resolver a brew subprocess is launched only
\* when preferBrew is set, whereas the bootstrap of a uv or go spec runs
\* brew install <tool> whenever a brew executable is resolved and the tool
\* is missing, whatever preferBrew says
C39_BootstrapIgnoresPreferBrew ==
    \A c \in Calls :
       /\ \A i \in LaunchesIn(c, "prereq") :
             LaunchKind(c, call[c].launched[i]) = "brew" => call[c].inp.prefs.preferBrew
       /\ ( /\ PastToolTest(c) /\ call[c].brewExe # None
            /\ ~hasBinary(HostOf(c), TheSpec(c).kind) )
          => \E i \in LaunchesIn(c, "bootstrap") :
                call[c].launched[i].argv = <<call[c].brewExe, "install", TheSpec(c).kind>>

\* preferBrew unset: the prerequisite went to apt-get, and still brew was
\* launched to install go
C39_Witness ==
    \E c \in Calls :
       /\ CommandBuilt(c) /\ TheSpec(c).kind = "go"
       /\ ~call[c].inp.prefs.preferBrew
       /\ \E i \in LaunchesIn(c, "prereq") : LaunchKind(c, call[c].launched[i]) = "apt"
       /\ \E i \in LaunchesIn(c, "bootstrap") :
             call[c].launched[i].argv = <<call[c].brewExe, "install", "go">>


---------------------------------------------------------------------------
(* Noise lines of the spoken text *)

\* the text without its noise lines
WithoutNoise(text) ==
    joinToString(SelectSeq(lines(text), LAMBDA line : ~IsNoiseLine(line)))

OnlyNoise(text) == \A i \in DOMAIN lines(text) : IsNoiseLine(lines(text)[i])

===========================================================================
